---- MODULE Spec2Model ----
(***************************************************************************)
(* The class/dependency indexer of tcplscan (src/src/indexing).            *)
(*                                                                         *)
(* The parser is modelled step by step: every action consumes at most one  *)
(* token through next_token / next_token_opt, so that the token queue and  *)
(* the bracket stack can be observed after each consumption.  `pc` names   *)
(* the call site of the next consumption.  The surrounding pipeline        *)
(* (indexing::index) feeds the files to one Parser and then builds the     *)
(* usage index.  Strings are TLA+ strings, handled character by character. *)
(***************************************************************************)
EXTENDS Integers, Sequences, FiniteSets, TLC

\* ------------------------------------------------------------------------
\* Bounds of the model
\* ------------------------------------------------------------------------
MaxFiles == 3       \* files handed to one run of the pipeline
MaxMembers == 1     \* members in a generated class body
MaxSuffix == 3      \* free tokens appended to a parsing context
MaxArms == 3        \* arms of a generated match statement
MaxCases == 3       \* items in the body of a generated switch statement
MaxMethods == 3     \* methods of a generated class
MaxText == 4        \* characters of a generated text
MaxUses == 2        \* imports of a unit generated for name resolution
MaxBody == 3        \* tokens of a generated function body

VARIABLES
    tokens,      \* Parser.tokens: the unconsumed tokens of the current unit
    brackets,    \* Parser.brackets: stack of unmatched openers
    namespace,   \* Parser.namespace
    uses,        \* Parser.uses
    aliases,     \* Parser.aliases
    pc,          \* call site of the next token consumption
    class,       \* the Class under construction in Parser::class
    function,    \* locals of Parser::function (name, params, return_type, ...)
    depth,       \* local `depth` of Parser::class
    frames,      \* locals of the active switch_stmt / match_stmt calls
    name,        \* local `name` of the `use` arm of parse_file
    ret,         \* value returned by parse_file for the current file
    raw_files,   \* index(): raw_files
    cursor,      \* index(): position of raw_files.iter()
    files,       \* index(): files
    index,       \* index(): the ClassDependencyIndex
    ix,          \* index(): position of files.iter() in the indexing pass
    shown,       \* display_files(): what is printed for each file
    source,      \* RawFile.content of the file handed to the Tokenizer
    code,        \* Tokenizer.code: the characters not yet consumed
    lineno,      \* Tokenizer.line
    lexed        \* the tokens collected from the Tokenizer so far

vars == <<tokens, brackets, namespace, uses, aliases, pc, class, function,
          depth, frames, name, ret, raw_files, cursor, files, index, ix, shown,
          source, code, lineno, lexed>>

fields == <<namespace, uses, aliases>>
locals == <<class, function, depth, frames, name>>
pipe == <<raw_files, cursor, files, index, ix, shown>>
lexer == <<source, code, lineno, lexed>>

\* ------------------------------------------------------------------------
\* Strings
\* ------------------------------------------------------------------------
None == <<>>
Some(v) == <<v>>

UpperChars == {"A", "B", "C", "D", "E", "F", "G", "H", "I", "J", "K", "L", "M",
               "N", "O", "P", "Q", "R", "S", "T", "U", "V", "W", "X", "Y", "Z"}

\* str.starts_with(c)
StartsWith(str, c) == Len(str) >= 1 /\ SubSeq(str, 1, 1) = c

\* str.chars().next().unwrap().is_uppercase(); the unwrap panics on ""
FirstIsUppercase(str) == SubSeq(str, 1, 1) \in UpperChars

\* str.split('\\'): the segments between backslashes, "" gives <<"">>
RECURSIVE SplitFrom(_, _, _)
SplitFrom(str, i, cur) ==
    IF i > Len(str) THEN <<cur>>
    ELSE IF SubSeq(str, i, i) = "\\"
         THEN <<cur>> \o SplitFrom(str, i + 1, "")
         ELSE SplitFrom(str, i + 1, cur \o SubSeq(str, i, i))

Split(str) == SplitFrom(str, 1, "")

\* segments.join("\\")
RECURSIVE Join(_)
Join(segments) ==
    IF segments = <<>> THEN ""
    ELSE IF Len(segments) = 1 THEN segments[1]
         ELSE segments[1] \o "\\" \o Join(Tail(segments))

Last(seq) == seq[Len(seq)]
Front(seq) == SubSeq(seq, 1, Len(seq) - 1)
Contains(seq, v) == \E i \in DOMAIN seq : seq[i] = v

\* ------------------------------------------------------------------------
\* Keyword tables (token.rs)
\* ------------------------------------------------------------------------
KEYWORDS ==
    ("if" :> "If") @@ ("elseif" :> "Elseif") @@ ("for" :> "For") @@
    ("foreach" :> "Foreach") @@ ("match" :> "Match") @@ ("switch" :> "Switch") @@
    ("while" :> "While") @@ ("case" :> "Case") @@ ("namespace" :> "Namespace") @@
    ("class" :> "Class") @@ ("function" :> "Function") @@ ("throw" :> "Throw") @@
    ("catch" :> "Catch") @@ ("extends" :> "Extends") @@ ("abstract" :> "Abstract") @@
    ("use" :> "Use") @@ ("as" :> "As") @@ ("public" :> "Visibility(Public)") @@
    ("private" :> "Visibility(Private)") @@
    ("protected" :> "Visibility(Protected)") @@ ("const" :> "Const") @@
    ("static" :> "Static") @@ ("iterable" :> "Iterable") @@ ("string" :> "String") @@
    ("array" :> "Array") @@ ("int" :> "Int") @@ ("float" :> "Float") @@
    ("bool" :> "Bool") @@ ("self" :> "MySelf") @@ ("void" :> "Void") @@
    ("readonly" :> "Readonly") @@ ("mixed" :> "Mixed") @@ ("true" :> "Bool") @@
    ("false" :> "Bool") @@ ("implements" :> "Implements") @@ ("trait" :> "Trait")

BUILT_IN_DATA_TYPES ==
    ("string" :> "String") @@ ("array" :> "Array") @@ ("int" :> "Int") @@
    ("float" :> "Float") @@ ("bool" :> "Bool") @@ ("self" :> "MySelf") @@
    ("void" :> "Void") @@ ("readonly" :> "Readonly") @@ ("iterable" :> "Iterable") @@
    ("static" :> "Static") @@ ("mixed" :> "Mixed") @@ ("true" :> "Bool") @@
    ("false" :> "Bool")

\* Option<Keyword> of a token
match_keyword(token) ==
    IF token.token_type # "Identifier" THEN None
    ELSE IF token.lexeme \in DOMAIN KEYWORDS THEN Some(KEYWORDS[token.lexeme])
         ELSE None

match_data_type(token) ==
    IF token.token_type # "Identifier" THEN None
    ELSE IF token.lexeme \in DOMAIN BUILT_IN_DATA_TYPES
         THEN Some(BUILT_IN_DATA_TYPES[token.lexeme])
         ELSE None

IsVisibility(keyword) ==
    keyword \in {"Visibility(Public)", "Visibility(Private)", "Visibility(Protected)"}

\* the Visibility carried by Keyword::Visibility(v)
VisibilityOf(keyword) ==
    CASE keyword = "Visibility(Public)" -> "Public"
      [] keyword = "Visibility(Private)" -> "Private"
      [] keyword = "Visibility(Protected)" -> "Protected"

\* ------------------------------------------------------------------------
\* Stmt, Function, Class (parser.rs)
\* ------------------------------------------------------------------------
Stmt(kind, line) == [kind |-> kind, line |-> line]
\* a Switch statement that drops the statements of its body
SwitchStmtFlat(case_count, stmts, line) ==
    [kind |-> "Switch", case_count |-> case_count, stmts |-> <<>>, line |-> line]

SwitchStmt(case_count, stmts, line) ==
    [kind |-> "Switch", case_count |-> case_count, stmts |-> stmts, line |-> line]
MatchStmt(case_count, line) ==
    [kind |-> "Match", case_count |-> case_count, line |-> line]

RECURSIVE StmtComplexity(_)
RECURSIVE SumComplexity(_)

\* Stmt::complexity
StmtComplexity(stmt) ==
    IF stmt.kind = "Match" THEN stmt.case_count
    ELSE IF stmt.kind = "Switch"
         THEN stmt.case_count + SumComplexity(stmt.stmts)
         ELSE 1

\* the `for stmt in stmts { sum += stmt.complexity() }` loops
SumComplexity(stmts) ==
    IF stmts = <<>> THEN 0
    ELSE StmtComplexity(Head(stmts)) + SumComplexity(Tail(stmts))

\* Function::complexity without the base path
ComplexityNoBase(f) == SumComplexity(f.stmts)

\* Function::complexity
Complexity(f) == SumComplexity(f.stmts) + 1

\* Function::new that never marks the function abstract
NewFunctionConcrete(fname, stmts, params, return_type, visibility, is_abstract) ==
    [name |-> fname, stmts |-> stmts, params |-> params,
     return_type |-> return_type, visibility |-> visibility,
     is_abstract |-> FALSE]

NewFunction(fname, stmts, params, return_type, visibility, is_abstract) ==
    [name |-> fname, stmts |-> stmts, params |-> params,
     return_type |-> return_type, visibility |-> visibility,
     is_abstract |-> is_abstract]

NewClass ==
    [name |-> "", functions |-> <<>>, extends |-> None, implements |-> <<>>,
     is_abstract |-> FALSE, dependencies |-> <<>>]

\* Class::add_dependency on the dependencies list (dependency is never ""
\* where this is used; the panicking case is AddUsesPanics)
AddDependencyBody(dependencies, dependency) ==
    IF FirstIsUppercase(dependency) /\ ~Contains(dependencies, dependency)
    THEN Append(dependencies, dependency)
    ELSE dependencies

add_dependency(c, dependency) ==
    [c EXCEPT !.dependencies = AddDependencyBody(c.dependencies, dependency)]

\* Class::add_fn
add_fn(c, f) ==
    LET c1 == IF f.return_type # None THEN add_dependency(c, f.return_type[1]) ELSE c
    IN [c1 EXCEPT !.functions = Append(c1.functions, f)]

\* locals of Parser::function; `depth` is the depth the current loop waits for
NoFunction ==
    [name |-> "", params |-> 0, return_type |-> None, visibility |-> "Public",
     depth |-> 0, stmts |-> <<>>]

\* ------------------------------------------------------------------------
\* Name resolution
\* ------------------------------------------------------------------------
\* the `for use_stmt in self.uses.iter()` loop of find_type: the first import
\* whose last segment is the lexeme, "" when there is none
RECURSIVE FirstUse(_, _)
FirstUse(use_stmts, lexeme) ==
    IF use_stmts = <<>> THEN ""
    ELSE IF lexeme = Last(Split(Head(use_stmts))) THEN Head(use_stmts)
         ELSE FirstUse(Tail(use_stmts), lexeme)

\* a find_type that never looks at the imports
FindTypeNoImports(type_token) ==
    IF match_data_type(type_token) # None THEN type_token.lexeme
    ELSE IF StartsWith(type_token.lexeme, "\\") THEN type_token.lexeme
    ELSE namespace \o "\\" \o type_token.lexeme

\* Parser::find_type
find_type(type_token) ==
    IF match_data_type(type_token) # None THEN type_token.lexeme
    ELSE IF StartsWith(type_token.lexeme, "\\") THEN type_token.lexeme
    ELSE LET data_type == FirstUse(uses, type_token.lexeme)
         IN IF data_type = "" THEN namespace \o "\\" \o type_token.lexeme
            ELSE data_type

parse_type(token) ==
    IF StartsWith(token.lexeme, "$") THEN None
    ELSE IF token.token_type = "Question" THEN None
    ELSE IF match_data_type(token) # None THEN None
    ELSE IF match_keyword(token) # None THEN None
    ELSE Some(find_type(token))

\* the `use ... as` arm of parse_file: the import path with the alias as its
\* last segment
AliasedPath(use_name, aliased) == Join(Append(Front(Split(use_name)), aliased))

NewAlias(original, alias) == [name |-> original, alias |-> alias]

\* ------------------------------------------------------------------------
\* End of Parser::class
\* ------------------------------------------------------------------------
\* for usage in uses: add it unless already a dependency
RECURSIVE AddUses(_, _)
AddUses(dependencies, usages) ==
    IF usages = <<>> THEN dependencies
    ELSE AddUses(IF ~Contains(dependencies, Head(usages))
                 THEN AddDependencyBody(dependencies, Head(usages))
                 ELSE dependencies,
                 Tail(usages))

\* add_dependency unwraps the first character: an empty import panics
AddUsesPanics(usages) == Contains(usages, "")

\* for alias in aliases: rewrite every dependency equal to alias.alias
RECURSIVE RewriteAliases(_, _)
RewriteAliases(dependencies, als) ==
    IF als = <<>> THEN dependencies
    ELSE RewriteAliases(
             [i \in DOMAIN dependencies |->
                 IF dependencies[i] = Head(als).alias THEN Head(als).name
                 ELSE dependencies[i]],
             Tail(als))

\* an insertion that puts f before the functions of its own complexity
InsertByKeyUnstable(sorted, f) ==
    LET before == {i \in DOMAIN sorted : Complexity(sorted[i]) > Complexity(f)}
        k == Cardinality(before)
    IN SubSeq(sorted, 1, k) \o <<f>> \o SubSeq(sorted, k + 1, Len(sorted))

\* functions.sort_by_key(|f| Reverse(f.complexity())): a stable sort
InsertByKey(sorted, f) ==
    LET before == {i \in DOMAIN sorted : Complexity(sorted[i]) >= Complexity(f)}
        k == Cardinality(before)
    IN SubSeq(sorted, 1, k) \o <<f>> \o SubSeq(sorted, k + 1, Len(sorted))

RECURSIVE SortFrom(_, _)
SortFrom(sorted, rest) ==
    IF rest = <<>> THEN sorted
    ELSE SortFrom(InsertByKey(sorted, Head(rest)), Tail(rest))

SortByComplexity(functions) == SortFrom(<<>>, functions)

FinishClass(c) ==
    [c EXCEPT !.dependencies = RewriteAliases(AddUses(c.dependencies, uses), aliases),
              !.functions = SortByComplexity(c.functions)]

\* ------------------------------------------------------------------------
\* Token consumption and bracket tracking
\* ------------------------------------------------------------------------
\* how closing_bracket ends for the closer token_type
ClosingOutcome(stack, token_type) ==
    IF stack = <<>> THEN "exit"
    ELSE IF Last(stack) = "LeftParen"
         THEN IF token_type # "RightParen" THEN "exit" ELSE "ok"
    ELSE IF Last(stack) = "LeftBrace"
         THEN IF token_type # "RightBrace" THEN "exit" ELSE "ok"
    ELSE "panic"

\* bracket tracking in which a closer leaves the stack as it is
TrackBracketsNoPop(stack, token_type) ==
    IF token_type \in {"LeftParen", "LeftBrace"} THEN Append(stack, token_type)
    ELSE stack

\* a next_token_opt that also pushes `[`
TrackBracketsSquare(stack, token_type) ==
    IF token_type \in {"LeftParen", "LeftBrace", "LeftBracket"}
    THEN Append(stack, token_type)
    ELSE IF token_type \in {"RightParen", "RightBrace"}
         THEN IF stack = <<>> THEN stack ELSE Front(stack)
         ELSE stack

\* the bracket stack after next_token_opt has handled a token of this type
TrackBrackets(stack, token_type) ==
    IF token_type \in {"LeftParen", "LeftBrace"} THEN Append(stack, token_type)
    ELSE IF token_type \in {"RightParen", "RightBrace"}
         THEN IF stack = <<>> THEN stack ELSE Front(stack)
         ELSE stack

TrackOutcome(stack, token_type) ==
    IF token_type \in {"RightParen", "RightBrace"}
    THEN ClosingOutcome(stack, token_type)
    ELSE "ok"

Fault(outcome) ==
    /\ pc' = outcome
    /\ UNCHANGED <<fields, locals, ret>>

\* next_token_opt on a non-empty queue, continued by Rest(token)
Consume(Rest(_)) ==
    LET token == Head(tokens)
    IN /\ tokens' = Tail(tokens)
       /\ brackets' = TrackBrackets(brackets, token.token_type)
       /\ UNCHANGED <<pipe, lexer>>
       /\ IF TrackOutcome(brackets, token.token_type) = "ok"
          THEN Rest(token)
          ELSE Fault(TrackOutcome(brackets, token.token_type))

\* next_token: process::exit(1) when the queue is empty
NextToken(Rest(_)) ==
    IF tokens = <<>>
    THEN pc' = "exit" /\ UNCHANGED <<tokens, brackets, fields, locals, ret, pipe, lexer>>
    ELSE Consume(Rest)

next_matches_token_types(queue, token_types) ==
    queue # <<>> /\ Head(queue).token_type \in token_types

next_matches_keywords(queue, keywords) ==
    /\ queue # <<>>
    /\ match_keyword(Head(queue)) # None
    /\ match_keyword(Head(queue))[1] \in keywords

\* ------------------------------------------------------------------------
\* Control flow shared by the call sites
\* ------------------------------------------------------------------------
Goto(p, c, f) ==
    /\ pc' = p
    /\ class' = c
    /\ function' = f
    /\ ret' = ret

\* Parser::class from the end of the body loop: returns the Class
ClassReturn(c) ==
    IF AddUsesPanics(uses)
    THEN Goto("panic", c, NoFunction)
    ELSE /\ pc' = "ret"
         /\ class' = FinishClass(c)
         /\ function' = NoFunction
         /\ ret' = Some(FinishClass(c))

\* `while depth != self.brackets.len()` of Parser::class, after a statement
ClassLoop(c, d) ==
    IF d # Len(brackets') THEN Goto("cl_stmt", c, NoFunction) ELSE ClassReturn(c)

\* `while depth != self.brackets.len()` of the function body; a finished
\* function is handed to add_fn and control is back in the class loop
FnLoop(f, c) ==
    IF f.depth # Len(brackets') THEN Goto("fn_stmt", c, f)
    ELSE ClassLoop(add_fn(c, NewFunction(f.name, f.stmts, f.params, f.return_type,
                                         f.visibility, FALSE)), depth)

\* `let return_type = if self.next_matches_token_types(&[Colon])`
ReturnType(f, c) ==
    IF next_matches_token_types(tokens', {"Colon"}) THEN Goto("fn_colon", c, f)
    ELSE Goto("fn_body_open", c, [f EXCEPT !.return_type = None])

\* `while self.brackets.len() != depth` of the parameter list
ParamLoop(f, c) ==
    IF Len(brackets') # f.depth THEN Goto("fn_params", c, f) ELSE ReturnType(f, c)

\* ------------------------------------------------------------------------
\* Parser::parse_file
\* ------------------------------------------------------------------------
\* a parse_file that keeps the imports of the unit before
NextFileKeepUses ==
    /\ pc = "next_file"
    /\ IF cursor > Len(raw_files)
       THEN /\ pc' = "index"
            /\ UNCHANGED <<tokens, brackets, uses, aliases>>
       ELSE /\ pc' = "pf_loop"
            /\ tokens' = raw_files[cursor].content
            /\ brackets' = <<>>
            /\ UNCHANGED <<uses, aliases>>
    /\ UNCHANGED <<namespace, locals, ret, pipe, lexer>>

\* the closure of raw_files.iter().for_each: the next file is lexed and
\* parse_file starts on its tokens; after the last file the indexing pass starts
NextFile ==
    /\ pc = "next_file"
    /\ IF cursor > Len(raw_files)
       THEN /\ pc' = "index"
            /\ UNCHANGED <<tokens, brackets, uses, aliases>>
       ELSE /\ pc' = "pf_loop"
            /\ tokens' = raw_files[cursor].content
            /\ brackets' = <<>>
            /\ uses' = <<>>
            /\ aliases' = <<>>
    /\ UNCHANGED <<namespace, locals, ret, pipe, lexer>>

\* one iteration of `while let Some(token) = self.next_token_opt()`
ParseFileLoop ==
    /\ pc = "pf_loop"
    /\ IF tokens = <<>>
       THEN /\ pc' = "ret"
            /\ ret' = None
            /\ UNCHANGED <<tokens, brackets, fields, locals, pipe, lexer>>
       ELSE LET TopLevel(token) ==
                    LET keyword == match_keyword(token)
                    IN /\ UNCHANGED <<fields, depth, frames, name>>
                       /\ IF token.token_type # "Identifier"
                          THEN Goto("pf_loop", class, function)
                          ELSE IF keyword = None
                          THEN IF next_matches_token_types(tokens', {"ColonColon", "ThinArrow"})
                               THEN Goto("pf_skip1", class, function)
                               ELSE Goto("pf_loop", class, function)
                          ELSE IF keyword[1] = "Namespace"
                          THEN Goto("pf_namespace", class, function)
                          ELSE IF keyword[1] = "Use"
                          THEN Goto("pf_use", class, function)
                          ELSE IF keyword[1] = "Abstract"
                          THEN Goto("pf_abstract", class, function)
                          ELSE IF keyword[1] \in {"Class", "Trait"}
                          THEN Goto("cl_name", [NewClass EXCEPT !.is_abstract = FALSE],
                                    NoFunction)
                          ELSE Goto("pf_loop", class, function)
            IN Consume(TopLevel)

\* Keyword::Namespace: self.namespace = self.next_token().lexeme
ParseNamespace ==
    /\ pc = "pf_namespace"
    /\ LET SetNamespace(token) ==
               /\ namespace' = token.lexeme
               /\ UNCHANGED <<uses, aliases, depth, frames, name>>
               /\ Goto("pf_loop", class, function)
       IN NextToken(SetNamespace)

\* Keyword::Use: let name = self.next_token().lexeme, then the `as` test
ParseUse ==
    /\ pc = "pf_use"
    /\ LET UseName(token) ==
               IF next_matches_keywords(tokens', {"As"})
               THEN /\ name' = token.lexeme
                    /\ UNCHANGED <<fields, depth, frames>>
                    /\ Goto("pf_use_as", class, function)
               ELSE /\ uses' = Append(uses, token.lexeme)
                    /\ UNCHANGED <<namespace, aliases, depth, frames, name>>
                    /\ Goto("pf_loop", class, function)
       IN NextToken(UseName)

\* the next_token() that consumes `as`
ParseUseAs ==
    /\ pc = "pf_use_as"
    /\ LET SkipAs(token) ==
               /\ UNCHANGED <<fields, depth, frames, name>>
               /\ Goto("pf_use_alias", class, function)
       IN NextToken(SkipAs)

\* let aliased = self.next_token().lexeme; uses and aliases are extended
ParseUseAlias ==
    /\ pc = "pf_use_alias"
    /\ LET UseAlias(token) ==
               /\ uses' = Append(uses, AliasedPath(name, token.lexeme))
               /\ aliases' = Append(aliases,
                                    NewAlias(name, AliasedPath(name, token.lexeme)))
               /\ name' = ""
               /\ UNCHANGED <<namespace, depth, frames>>
               /\ Goto("pf_loop", class, function)
       IN NextToken(UseAlias)

\* Keyword::Abstract: self.next_token(); Some(self.class(true))
ParseAbstract ==
    /\ pc = "pf_abstract"
    /\ LET AbstractClass(token) ==
               /\ UNCHANGED <<fields, depth, frames, name>>
               /\ Goto("cl_name", [NewClass EXCEPT !.is_abstract = TRUE], NoFunction)
       IN NextToken(AbstractClass)

\* the two next_token() calls after an identifier followed by `::` or `->`
ParseFileSkip ==
    /\ pc \in {"pf_skip1", "pf_skip2"}
    /\ LET SkipMember(token) ==
               /\ UNCHANGED <<fields, depth, frames, name>>
               /\ Goto(IF pc = "pf_skip1" THEN "pf_skip2" ELSE "pf_loop", class, function)
       IN NextToken(SkipMember)

\* ------------------------------------------------------------------------
\* Parser::class
\* ------------------------------------------------------------------------
\* after `extends`: the `implements` test
AfterExtends(c) ==
    IF next_matches_keywords(tokens', {"Implements"})
    THEN Goto("cl_implements", c, NoFunction)
    ELSE Goto("cl_open", c, NoFunction)

\* class.name = namespace + "\\" + next_token().lexeme, then the `extends` test
ClassName ==
    /\ pc = "cl_name"
    /\ LET SetName(token) ==
               LET c == [class EXCEPT !.name = namespace \o "\\" \o token.lexeme]
               IN /\ UNCHANGED <<fields, depth, frames, name>>
                  /\ IF next_matches_keywords(tokens', {"Extends"})
                     THEN Goto("cl_extends_kw", c, NoFunction)
                     ELSE AfterExtends(c)
       IN NextToken(SetName)

\* the next_token() that consumes `extends`
ClassExtendsKeyword ==
    /\ pc = "cl_extends_kw"
    /\ LET SkipExtends(token) ==
               /\ UNCHANGED <<fields, depth, frames, name>>
               /\ Goto("cl_extends", class, NoFunction)
       IN NextToken(SkipExtends)

\* class.extends = Some(self.find_type(&extends))
ClassExtends ==
    /\ pc = "cl_extends"
    /\ LET SetExtends(token) ==
               /\ UNCHANGED <<fields, depth, frames, name>>
               /\ AfterExtends([class EXCEPT !.extends = Some(find_type(token))])
       IN NextToken(SetExtends)

\* the next_token() that consumes `implements`
ClassImplementsKeyword ==
    /\ pc = "cl_implements"
    /\ LET SkipImplements(token) ==
               /\ UNCHANGED <<fields, depth, frames, name>>
               /\ Goto("cl_implements_loop", class, NoFunction)
       IN NextToken(SkipImplements)

\* let depth = self.brackets.len(); self.next_token(); then the body loop test
OpenBody ==
    LET Opened(token) ==
            /\ depth' = Len(brackets)
            /\ UNCHANGED <<fields, frames, name>>
            /\ ClassLoop(class, Len(brackets))
    IN NextToken(Opened)

\* one iteration of the implements loop; when the loop ends the body is opened
ClassImplements ==
    /\ pc = "cl_implements_loop"
    /\ IF tokens # <<>> /\ Head(tokens).token_type # "LeftBrace"
       THEN LET Implemented(token) ==
                    /\ UNCHANGED <<fields, depth, frames, name>>
                    /\ IF token.token_type = "Comma"
                       THEN Goto("cl_implements_loop", class, NoFunction)
                       ELSE Goto("cl_implements_loop",
                                 [class EXCEPT !.implements = Append(@, token.lexeme)],
                                 NoFunction)
            IN NextToken(Implemented)
       ELSE OpenBody

ClassOpen ==
    /\ pc = "cl_open"
    /\ OpenBody

\* ------------------------------------------------------------------------
\* Parser::statement and Parser::match_keyword
\* ------------------------------------------------------------------------
\* the final `match keyword` of match_keyword, for the token just consumed
Dispatch(keyword, token, visibility) ==
    IF keyword = "Const" THEN Goto("sync", class, NoFunction)
    ELSE IF keyword = "Readonly" THEN Goto("mk_readonly", class, NoFunction)
    ELSE IF keyword = "Static" THEN Goto("mk_static", class, NoFunction)
    ELSE IF keyword = "Function"
    THEN Goto("fn_name", class, [NoFunction EXCEPT !.visibility = visibility])
    ELSE IF parse_type(token) # None
    THEN ClassLoop(add_dependency(class, parse_type(token)[1]), depth)
    ELSE Goto("sync", class, NoFunction)

\* Parser::statement up to its first token; `abstract` re-enters it without
\* the body loop test
Statement ==
    /\ pc = "cl_stmt"
    /\ LET Member(token) ==
               LET keyword == match_keyword(token)
               IN /\ UNCHANGED <<fields, depth, frames, name>>
                  /\ IF keyword = None THEN ClassLoop(class, depth)
                     ELSE IF keyword[1] = "Abstract" THEN Goto("cl_stmt", class, NoFunction)
                     ELSE IF keyword[1] = "Use" THEN Goto("cl_use", class, NoFunction)
                     ELSE IF IsVisibility(keyword[1])
                     THEN Goto("mk_visibility", class,
                               [NoFunction EXCEPT !.visibility = VisibilityOf(keyword[1])])
                     ELSE Dispatch(keyword[1], token, "Public")
       IN NextToken(Member)

\* Keyword::Use in a class body: class.add_dependency(self.find_type(&token))
StatementUse ==
    /\ pc = "cl_use"
    /\ LET UseTrait(token) ==
               /\ UNCHANGED <<fields, depth, frames, name>>
               /\ ClassLoop(add_dependency(class, find_type(token)), depth)
       IN NextToken(UseTrait)

\* match_keyword after a visibility keyword
MatchKeywordVisibility ==
    /\ pc = "mk_visibility"
    /\ LET Typed(token) ==
               /\ UNCHANGED <<fields, depth, frames, name>>
               /\ IF parse_type(token) # None
                  THEN ClassLoop(add_dependency(class, parse_type(token)[1]), depth)
                  ELSE IF match_keyword(token) = None THEN ClassLoop(class, depth)
                  ELSE Dispatch(match_keyword(token)[1], token, function.visibility)
       IN NextToken(Typed)

\* Keyword::Readonly
MatchKeywordReadonly ==
    /\ pc = "mk_readonly"
    /\ LET ReadonlyType(token) ==
               /\ UNCHANGED <<fields, depth, frames, name>>
               /\ IF parse_type(token) # None
                  THEN ClassLoop(add_dependency(class, parse_type(token)[1]), depth)
                  ELSE ClassLoop(class, depth)
       IN NextToken(ReadonlyType)

\* Keyword::Static
MatchKeywordStatic ==
    /\ pc = "mk_static"
    /\ LET StaticMember(token) ==
               /\ UNCHANGED <<fields, depth, frames, name>>
               /\ IF match_keyword(token) # None /\ match_keyword(token)[1] = "Function"
                  THEN Goto("fn_name", class, [NoFunction EXCEPT !.visibility = "Public"])
                  ELSE IF parse_type(token) # None
                  THEN ClassLoop(add_dependency(class, parse_type(token)[1]), depth)
                  ELSE ClassLoop(class, depth)
       IN NextToken(StaticMember)

\* a synchronize that gives up after one token
SynchronizeOneToken ==
    /\ pc = "sync"
    /\ LET Synchronized(token) ==
               /\ UNCHANGED <<fields, depth, frames, name>>
               /\ ClassLoop(class, depth)
       IN NextToken(Synchronized)

\* Parser::synchronize, one next_token() per step
Synchronize ==
    /\ pc = "sync"
    /\ IF tokens # <<>> /\ Head(tokens).token_type # "Semicolon"
       THEN LET Skipped(token) ==
                    /\ UNCHANGED <<fields, depth, frames, name>>
                    /\ Goto("sync", class, NoFunction)
            IN NextToken(Skipped)
       ELSE LET Synchronized(token) ==
                    /\ UNCHANGED <<fields, depth, frames, name>>
                    /\ ClassLoop(class, depth)
            IN NextToken(Synchronized)

\* ------------------------------------------------------------------------
\* Parser::function
\* ------------------------------------------------------------------------
\* let name = self.next_token().lexeme; let depth = self.brackets.len()
FunctionName ==
    /\ pc = "fn_name"
    /\ LET Named(token) ==
               /\ UNCHANGED <<fields, depth, frames, name>>
               /\ Goto("fn_open", class,
                       [function EXCEPT !.name = token.lexeme, !.depth = Len(brackets')])
       IN NextToken(Named)

\* self.next_token(); let mut params = 0; then the parameter loop test
FunctionOpen ==
    /\ pc = "fn_open"
    /\ LET ParamsOpened(token) ==
               /\ UNCHANGED <<fields, depth, frames, name>>
               /\ ParamLoop([function EXCEPT !.params = 0], class)
       IN NextToken(ParamsOpened)

\* one iteration of the parameter loop
FunctionParams ==
    /\ pc = "fn_params"
    /\ LET Param(token) ==
               /\ UNCHANGED <<fields, depth, frames, name>>
               /\ IF token.token_type \in {"Comma", "RightParen", "Equal"}
                  THEN ParamLoop(function, class)
                  ELSE IF StartsWith(token.lexeme, "$")
                  THEN ParamLoop([function EXCEPT !.params = @ + 1], class)
                  ELSE IF parse_type(token) # None
                  THEN ParamLoop(function, add_dependency(class, parse_type(token)[1]))
                  ELSE ParamLoop(function, class)
       IN NextToken(Param)

\* the next_token() that consumes `:`
FunctionColon ==
    /\ pc = "fn_colon"
    /\ LET SkipColon(token) ==
               /\ UNCHANGED <<fields, depth, frames, name>>
               /\ Goto("fn_return", class, function)
       IN NextToken(SkipColon)

\* let mut return_token = self.next_token(); a `?` is replaced by the next token
FunctionReturn ==
    /\ pc \in {"fn_return", "fn_nullable"}
    /\ LET Returned(token) ==
               /\ UNCHANGED <<fields, depth, frames, name>>
               /\ IF pc = "fn_return" /\ token.token_type = "Question"
                  THEN Goto("fn_nullable", class, function)
                  ELSE Goto("fn_body_open", class,
                            [function EXCEPT !.return_type = Some(find_type(token))])
       IN NextToken(Returned)

\* let depth = self.brackets.len(); let token = self.next_token(): `;` makes
\* the function abstract, anything else starts the body loop
FunctionBodyOpen ==
    /\ pc = "fn_body_open"
    /\ LET BodyOpened(token) ==
               /\ UNCHANGED <<fields, depth, frames, name>>
               /\ IF token.token_type = "Semicolon"
                  THEN ClassLoop(add_fn(class, NewFunction(function.name, <<>>,
                                     function.params, function.return_type,
                                     function.visibility, TRUE)), depth)
                  ELSE FnLoop([function EXCEPT !.depth = Len(brackets), !.stmts = <<>>],
                              class)
       IN NextToken(BodyOpened)

\* ------------------------------------------------------------------------
\* Parser::parse_stmt, create_statement, switch_stmt, match_stmt
\* ------------------------------------------------------------------------
SimpleKinds == {"If", "Elseif", "For", "Foreach", "Throw", "Catch"}

NewFrame(kind, line) ==
    [kind |-> kind, case_count |-> 0, depth |-> Len(brackets'), stmts |-> <<>>,
     line |-> line]

\* parse_stmt on the function body's next token
ParseStmt ==
    /\ pc = "fn_stmt"
    /\ LET Body(token) ==
               LET keyword == match_keyword(token)
               IN /\ UNCHANGED <<fields, depth, name>>
                  /\ IF token.token_type # "Identifier"
                     THEN /\ frames' = frames
                          /\ IF token.token_type \in {"ColonColon", "ThinArrow"}
                             THEN Goto("ps_skip1", class, function)
                             ELSE FnLoop(function, class)
                     ELSE IF keyword = None
                     THEN frames' = frames /\ FnLoop(function, class)
                     ELSE IF keyword[1] \in SimpleKinds
                     THEN /\ frames' = frames
                          /\ FnLoop([function EXCEPT
                                        !.stmts = Append(@, Stmt(keyword[1], token.line))],
                                    class)
                     ELSE IF keyword[1] = "Switch"
                     THEN /\ frames' = <<NewFrame("Switch", token.line)>>
                          /\ Goto("sw_loop", class, function)
                     ELSE IF keyword[1] = "Match"
                     THEN /\ frames' = <<NewFrame("Match", token.line)>>
                          /\ Goto("mt_loop", class, function)
                     ELSE frames' = frames /\ FnLoop(function, class)
       IN NextToken(Body)

\* the three next_token() calls of parse_stmt after `::` or `->`
ParseStmtSkip ==
    /\ pc \in {"ps_skip1", "ps_skip2", "ps_skip3"}
    /\ LET SkipCall(token) ==
               /\ UNCHANGED <<fields, depth, frames, name>>
               /\ IF pc = "ps_skip1" THEN Goto("ps_skip2", class, function)
                  ELSE IF pc = "ps_skip2" THEN Goto("ps_skip3", class, function)
                  ELSE FnLoop(function, class)
       IN NextToken(SkipCall)

\* a finished switch or match statement goes to the enclosing switch_stmt, or
\* to the function body when there is none
Deliver(stmt) ==
    LET outer == Front(frames)
    IN IF outer = <<>>
       THEN /\ frames' = <<>>
            /\ FnLoop([function EXCEPT !.stmts = Append(@, stmt)], class)
       ELSE /\ frames' = [outer EXCEPT ![Len(outer)].stmts = Append(@, stmt)]
            /\ Goto("sw_loop", class, function)

\* a scanner that waits on the empty queue
UnterminatedWaits == UNCHANGED vars

\* the queue ran out inside switch_stmt / match_stmt: process::exit(1)
Unterminated ==
    /\ pc' = "exit"
    /\ UNCHANGED <<tokens, brackets, fields, locals, ret, pipe, lexer>>

\* one iteration of the loop of switch_stmt
SwitchLoop ==
    /\ pc = "sw_loop"
    /\ IF tokens = <<>> THEN Unterminated
       ELSE LET top == Len(frames)
                InSwitch(token) ==
                    LET keyword == match_keyword(token)
                    IN /\ UNCHANGED <<fields, depth, name>>
                       /\ IF token.token_type = "Identifier"
                          THEN IF keyword = None
                               THEN frames' = frames /\ Goto("sw_loop", class, function)
                               ELSE IF keyword[1] = "Case"
                               THEN /\ frames' = [frames EXCEPT ![top].case_count = @ + 1]
                                    /\ Goto("sw_loop", class, function)
                               ELSE IF keyword[1] \in SimpleKinds
                               THEN /\ frames' = [frames EXCEPT ![top].stmts =
                                                    Append(@, Stmt(keyword[1], token.line))]
                                    /\ Goto("sw_loop", class, function)
                               ELSE IF keyword[1] = "Switch"
                               THEN /\ frames' = Append(frames, NewFrame("Switch", token.line))
                                    /\ Goto("sw_loop", class, function)
                               ELSE IF keyword[1] = "Match"
                               THEN /\ frames' = Append(frames, NewFrame("Match", token.line))
                                    /\ Goto("mt_loop", class, function)
                               ELSE frames' = frames /\ Goto("sw_loop", class, function)
                          ELSE IF token.token_type = "RightBrace"
                                  /\ Len(brackets') = frames[top].depth
                          THEN Deliver(SwitchStmt(frames[top].case_count,
                                                  frames[top].stmts, frames[top].line))
                          ELSE frames' = frames /\ Goto("sw_loop", class, function)
            IN Consume(InSwitch)

\* one iteration of the loop of match_stmt
MatchLoop ==
    /\ pc = "mt_loop"
    /\ IF tokens = <<>> THEN Unterminated
       ELSE LET top == Len(frames)
                InMatch(token) ==
                    /\ UNCHANGED <<fields, depth, name>>
                    /\ IF token.token_type = "FatArrow"
                       THEN /\ frames' = [frames EXCEPT ![top].case_count = @ + 1]
                            /\ Goto("mt_loop", class, function)
                       ELSE IF token.token_type = "RightBrace"
                               /\ Len(brackets') = frames[top].depth
                       THEN Deliver(MatchStmt(frames[top].case_count, frames[top].line))
                       ELSE frames' = frames /\ Goto("mt_loop", class, function)
            IN Consume(InMatch)

\* ------------------------------------------------------------------------
\* indexing::index
\* ------------------------------------------------------------------------
\* File::new with `lines` and `last_accessed` exchanged
NewFileSwapped(path, c, lines, last_accessed) ==
    [path |-> path, class |-> c, lines |-> last_accessed, last_accessed |-> lines]

NewFile(path, c, lines, last_accessed) ==
    [path |-> path, class |-> c, lines |-> lines, last_accessed |-> last_accessed]

\* let line = match tokens.back() { Some(token) => token.line, None => 0 }
LastLine(content) == IF content = <<>> THEN 0 ELSE Last(content).line

\* `if let Some(class) = parser.parse_file(tokens)`: the file is kept
Collect ==
    /\ pc = "ret"
    /\ files' = IF ret # None
                THEN Append(files, NewFile(raw_files[cursor].path, ret[1],
                                           LastLine(raw_files[cursor].content),
                                           raw_files[cursor].last_accessed))
                ELSE files
    /\ cursor' = cursor + 1
    /\ ret' = None
    /\ pc' = "next_file"
    /\ UNCHANGED <<tokens, brackets, fields, locals, raw_files, index, ix, shown,
                   lexer>>

\* .and_modify(|c| *c += 1).or_insert(1) for every dependency
RECURSIVE CountDependencies(_, _)
CountDependencies(counts, dependencies) ==
    IF dependencies = <<>> THEN counts
    ELSE CountDependencies(
             IF Head(dependencies) \in DOMAIN counts
             THEN [counts EXCEPT ![Head(dependencies)] = @ + 1]
             ELSE counts @@ (Head(dependencies) :> 1),
             Tail(dependencies))

\* the class's own name is not entered
EnsureEntryMissing(counts, key) == counts

\* index.entry(class.name).or_insert(0)
EnsureEntry(counts, key) ==
    IF key \in DOMAIN counts THEN counts ELSE counts @@ (key :> 0)

\* one iteration of `for file in files.iter()` of the indexing pass
IndexFile ==
    /\ pc = "index"
    /\ IF ix > Len(files)
       THEN pc' = "done" /\ UNCHANGED <<index, ix>>
       ELSE /\ index' = CountDependencies(EnsureEntry(index, files[ix].class.name),
                                          files[ix].class.dependencies)
            /\ ix' = ix + 1
            /\ pc' = "index"
    /\ UNCHANGED <<tokens, brackets, fields, locals, ret, raw_files, cursor, files,
                   shown, lexer>>

\* ------------------------------------------------------------------------
\* Tokenizer (tokenizer.rs)
\* ------------------------------------------------------------------------
\* A Tokenizer value is [code, line, status]; status is "exit" after error()
\* or process::exit, "panic" after an index out of bounds, unwrap on None or
\* todo!(), and every method leaves a Tokenizer that is not "ok" as it is.
Digits == {"0", "1", "2", "3", "4", "5", "6", "7", "8", "9"}

LowerChars == {"a", "b", "c", "d", "e", "f", "g", "h", "i", "j", "k", "l", "m",
               "n", "o", "p", "q", "r", "s", "t", "u", "v", "w", "x", "y", "z"}

\* char::is_alphanumeric on the characters of the model
IsAlphanumeric(c) == c \in Digits \cup LowerChars \cup UpperChars

First(str) == SubSeq(str, 1, 1)
Rest(str) == SubSeq(str, 2, Len(str))

\* Tokenizer::new
NewTokenizer(text) == [code |-> text, line |-> 1, status |-> "ok"]

\* Tokenizer::advance that does not count lines
AdvanceSameLine(t) ==
    IF t.status # "ok" THEN t
    ELSE IF t.code = "" THEN [t EXCEPT !.status = "exit"]
    ELSE [t EXCEPT !.code = Rest(t.code)]

\* Tokenizer::advance
Advance(t) ==
    IF t.status # "ok" THEN t
    ELSE IF t.code = "" THEN [t EXCEPT !.status = "exit"]
    ELSE [t EXCEPT !.code = Rest(t.code),
                   !.line = IF First(t.code) = "\n" THEN t.line + 1 ELSE t.line]

\* Tokenizer::peek and peek_next as Option<char>
Peek(t) == IF t.code = "" THEN None ELSE Some(First(t.code))
PeekNext(t) == IF Len(t.code) < 2 THEN None ELSE Some(SubSeq(t.code, 2, 2))

\* self.peek().is_some_and(|c| c == &to_match)
PeekIs(t, to_match) == Peek(t) = Some(to_match)

\* Tokenizer::match_char: the Tokenizer after the call; the call returned
\* true exactly when PeekIs held before it
MatchChar(t, to_match) == IF PeekIs(t, to_match) THEN Advance(t) ELSE t

\* Tokenizer::make_token, together with the Tokenizer it leaves
Made(t, token_type, lexeme) ==
    [t |-> t,
     token |-> IF t.status = "ok"
               THEN Some([token_type |-> token_type, line |-> t.line, lexeme |-> lexeme])
               ELSE None]

\* the loop of Tokenizer::string with a flag that is never set
EscapedNever(escaped, char) == FALSE

\* the `escaped` flag of Tokenizer::string after reading char
Escaped(escaped, char) == IF char = "\\" THEN ~escaped ELSE FALSE

\* the loop of Tokenizer::string
RECURSIVE StringLoop(_, _, _, _)
StringLoop(t, quote_type, escaped, string) ==
    IF (~PeekIs(t, quote_type) \/ escaped) /\ t.code # ""
    THEN StringLoop(Advance(t), quote_type, Escaped(escaped, First(t.code)),
                    string \o First(t.code))
    ELSE [t |-> t, string |-> string]

\* Tokenizer::string
LexString(t, quote_type) ==
    LET loop == StringLoop(t, quote_type, FALSE, "")
    IN IF loop.t.code = ""
       THEN Made([loop.t EXCEPT !.status = "exit"], "String", loop.string)
       ELSE Made(Advance(loop.t), "String", loop.string)

\* while self.peek().is_some_and(|c| c.is_ascii_digit()) { string.push(..) }
RECURSIVE DigitsLoop(_, _)
DigitsLoop(t, string) ==
    IF t.code # "" /\ First(t.code) \in Digits
    THEN DigitsLoop(Advance(t), string \o First(t.code))
    ELSE [t |-> t, string |-> string]

\* Tokenizer::number; the digit that scan_token consumed is not in the lexeme
LexNumber(t) ==
    LET whole == DigitsLoop(t, "")
    IN IF PeekIs(whole.t, ".")
       THEN LET fraction == DigitsLoop(Advance(whole.t), whole.string \o ".")
            IN Made(fraction.t, "Number", fraction.string)
       ELSE Made(whole.t, "Number", whole.string)

RECURSIVE WordLoop(_, _)
WordLoop(t, word) ==
    IF t.code # "" /\ (IsAlphanumeric(First(t.code)) \/ First(t.code) \in {"_", "\\"})
    THEN WordLoop(Advance(t), word \o First(t.code))
    ELSE [t |-> t, word |-> word]

\* Tokenizer::identifier
LexIdentifier(t, start) ==
    LET loop == WordLoop(t, start)
    IN Made(loop.t, "Identifier", loop.word)

\* while self.peek().is_some_and(|c| c != &stop) { title.push(self.next_char()) }
RECURSIVE TitleLoop(_, _, _)
TitleLoop(t, stop, title) ==
    IF t.code # "" /\ First(t.code) # stop
    THEN TitleLoop(Advance(t), stop, title \o First(t.code))
    ELSE [t |-> t, title |-> title]

\* title.iter().for_each(|_| self.advance())
RECURSIVE AdvanceTimes(_, _)
AdvanceTimes(t, n) == IF n = 0 THEN t ELSE AdvanceTimes(Advance(t), n - 1)

\* the `loop` of here_doc: code[i] beyond the end of the code panics
RECURSIVE DocLoop(_, _, _)
DocLoop(t, title, doc) ==
    LET n == Len(title)
        differs == {i \in 1..n : i <= Len(t.code) /\ SubSeq(t.code, i, i) # SubSeq(title, i, i)}
    IN IF differs = {}
       THEN IF Len(t.code) < n
            THEN [t |-> [t EXCEPT !.status = "panic"], doc |-> doc]
            ELSE [t |-> AdvanceTimes(t, n), doc |-> doc]
       ELSE DocLoop(Advance(t), title, doc \o First(t.code))

\* Tokenizer::here_doc
HereDoc(t) ==
    LET quoted == t.code # "" /\ First(t.code) \in {"'", "\""}
        head == IF quoted
                THEN LET loop == TitleLoop(Advance(t), First(t.code), "")
                     IN [t |-> Advance(loop.t), title |-> loop.title]
                ELSE TitleLoop(t, "\n", "")
        opened == Advance(head.t)
    IN IF opened.status # "ok" THEN Made(opened, "HereDoc", "")
       ELSE LET loop == DocLoop(opened, head.title, "")
            IN Made(loop.t, "HereDoc", loop.doc)

\* the arms of scan_token that give one token for one character
SingleChars ==
    ("{" :> "LeftBrace") @@ ("}" :> "RightBrace") @@ ("(" :> "LeftParen") @@
    (")" :> "RightParen") @@ ("[" :> "LeftBracket") @@ ("]" :> "RightBracket") @@
    ("," :> "Comma") @@ ("." :> "Dot") @@ ("+" :> "Plus") @@ (";" :> "Semicolon") @@
    ("#" :> "Hash") @@ ("*" :> "Star") @@ ("?" :> "Question") @@ ("%" :> "Modulo") @@
    ("@" :> "AtSign")

\* the loop of the `/*` arm
RECURSIVE BlockCommentLoop(_)
BlockCommentLoop(t) ==
    IF ~(t.code = "" \/ (PeekIs(t, "*") /\ PeekNext(t) = Some("/")))
    THEN BlockCommentLoop(Advance(t))
    ELSE t

\* the loop of the `//` arm
RECURSIVE LineCommentLoop(_)
LineCommentLoop(t) ==
    IF t.code # "" /\ First(t.code) # "\n" THEN LineCommentLoop(Advance(t)) ELSE t

\* the `<` arm: each match_char that succeeds consumes its character
LexLess(t) ==
    LET t1 == MatchChar(t, "<")
        t2 == MatchChar(t1, "<")
    IN IF PeekIs(t, "<") /\ PeekIs(t1, "<") THEN HereDoc(t2)
       ELSE LET q1 == MatchChar(t1, "?")
                q2 == MatchChar(q1, "p")
                q3 == MatchChar(q2, "h")
                q4 == MatchChar(q3, "p")
                tag == IF ~PeekIs(t1, "?") THEN t1
                       ELSE IF ~PeekIs(q1, "p") THEN q1
                       ELSE IF ~PeekIs(q2, "h") THEN q2
                       ELSE IF ~PeekIs(q3, "p") THEN q3
                       ELSE q4
                is_tag == /\ PeekIs(t1, "?") /\ PeekIs(q1, "p")
                          /\ PeekIs(q2, "h") /\ PeekIs(q3, "p")
            IN IF is_tag THEN Made(q4, "PhpTag", "<?php")
               ELSE IF PeekIs(tag, "=") THEN Made(Advance(tag), "LessEqual", "<=")
               ELSE Made(tag, "Less", "<")

\* the arms for `!` and `=`
LexBangOrEqual(t, char) ==
    IF PeekIs(t, "=")
    THEN IF PeekIs(Advance(t), "=")
         THEN Made(Advance(Advance(t)),
                   IF char = "!" THEN "BangEqualEqual" ELSE "EqualEqualEqual",
                   char \o "==")
         ELSE Made(Advance(t), IF char = "!" THEN "BangEqual" ELSE "EqualEqual",
                   char \o "=")
    ELSE IF char = "=" /\ PeekIs(t, ">") THEN Made(Advance(t), "FatArrow", "=>")
    ELSE Made(t, IF char = "!" THEN "Bang" ELSE "Equal", char)

\* Tokenizer::scan_token: the Tokenizer it leaves and the Option<Token> it
\* returns
RECURSIVE scan_token(_)
scan_token(t) ==
    IF t.status # "ok" \/ t.code = "" THEN [t |-> t, token |-> None]
    ELSE LET char == First(t.code)
             t1 == Advance(t)
         IN CASE char \in {" ", "\r", "\t", "\n"} -> scan_token(t1)
              [] char \in DOMAIN SingleChars -> Made(t1, SingleChars[char], char)
              [] char = "-" ->
                    IF PeekIs(t1, ">") THEN Made(Advance(t1), "ThinArrow", "->")
                    ELSE Made(t1, "Minus", "-")
              [] char = "/" ->
                    IF PeekIs(t1, "*")
                    THEN LET closed == BlockCommentLoop(Advance(t1))
                         IN IF Len(closed.code) < 2
                            THEN [t |-> [closed EXCEPT !.status = "exit"], token |-> None]
                            ELSE scan_token(Advance(Advance(closed)))
                    ELSE IF PeekIs(t1, "/")
                    THEN scan_token(Advance(LineCommentLoop(Advance(t1))))
                    ELSE Made(t1, "Slash", "/")
              [] char = ":" ->
                    IF PeekIs(t1, ":") THEN Made(Advance(t1), "ColonColon", "::")
                    ELSE Made(t1, "Colon", ":")
              [] char \in {"!", "="} -> LexBangOrEqual(t1, char)
              [] char = ">" ->
                    IF PeekIs(t1, "=") THEN Made(Advance(t1), "GreaterEqual", ">=")
                    ELSE Made(t1, "Greater", ">")
              [] char = "<" -> LexLess(t1)
              [] char = "|" ->
                    IF PeekIs(t1, "|") THEN Made(Advance(t1), "OrOperator", "||")
                    ELSE Made(t1, "Pipe", "|")
              [] char = "&" ->
                    IF PeekIs(t1, "&") THEN Made(Advance(t1), "AndOperator", "&&")
                    ELSE Made(t1, "Reference", "&")
              [] char \in {"\"", "'"} -> LexString(t1, char)
              [] char \in Digits -> LexNumber(t1)
              [] char \in {"_", "$", "\\"} \cup LowerChars \cup UpperChars ->
                    LexIdentifier(t1, char)
              [] OTHER -> [t |-> [t1 EXCEPT !.status = "panic"], token |-> None]

\* one call of Iterator::next by collect(): the token is pushed, None ends
\* the collection
TokenizerNext ==
    /\ pc = "scan"
    /\ LET scanned == scan_token([code |-> code, line |-> lineno, status |-> "ok"])
       IN /\ code' = scanned.t.code
          /\ lineno' = scanned.t.line
          /\ IF scanned.t.status # "ok"
             THEN pc' = scanned.t.status /\ lexed' = lexed
             ELSE IF scanned.token = None
             THEN pc' = "lexed" /\ lexed' = lexed
             ELSE pc' = "scan" /\ lexed' = Append(lexed, scanned.token[1])
    /\ UNCHANGED <<tokens, brackets, fields, locals, ret, pipe, source>>

NextLex == TokenizerNext

\* ------------------------------------------------------------------------
\* Class metrics and interface::display_files
\* ------------------------------------------------------------------------
\* the functions that pass .filter(|f| f.name != "__construct")
NotConstructor(f) == f.name # "__construct"

RECURSIVE SumOfComplexity(_)
SumOfComplexity(functions) ==
    IF functions = <<>> THEN 0
    ELSE Complexity(Head(functions)) + SumOfComplexity(Tail(functions))

\* the f64 quotient sum / len, kept as the pair of its operands; the early
\* return 0.0 is 0 / 1
Quotient(sum, len) == [sum |-> sum, len |-> len]

\* Class::average_complexity in which the constructor is counted as well
AverageWithConstructor(c) ==
    IF c.functions = <<>> THEN Quotient(0, 1)
    ELSE Quotient(SumOfComplexity(c.functions), Len(c.functions))

\* Class::average_complexity
average_complexity(c) ==
    IF c.functions = <<>> THEN Quotient(0, 1)
    ELSE LET counted == SelectSeq(c.functions, NotConstructor)
             sum == SumOfComplexity(counted)
             len == Len(counted)
         IN Quotient(sum, IF len = 0 THEN len + 1 ELSE len)

RECURSIVE MaxComplexity(_, _)
MaxComplexity(max, functions) ==
    IF functions = <<>> THEN max
    ELSE MaxComplexity(IF Complexity(Head(functions)) > max
                       THEN Complexity(Head(functions)) ELSE max,
                       Tail(functions))

\* Class::highest_complexity_function
highest_complexity_function(c) ==
    IF c.functions = <<>> THEN 0 ELSE MaxComplexity(0, c.functions)

\* what display_files prints for one file; index.get(&class.name).unwrap()
\* is the "Used in" count
Row(file) ==
    [name |-> file.class.name,
     last_accessed |-> file.last_accessed,
     path |-> file.path,
     lines |-> file.lines,
     used |-> index[file.class.name],
     dependencies |-> Len(file.class.dependencies),
     average |-> average_complexity(file.class),
     highest |-> highest_complexity_function(file.class),
     functions |-> Len(file.class.functions)]

\* display_files under ViewOptions::default() (no query, top_files = 10 is
\* more than the files of a run): one row per file, in order; the unwrap
\* panics when a class name is no key of the index
DisplayFiles ==
    /\ pc = "done"
    /\ IF \E i \in DOMAIN files : files[i].class.name \notin DOMAIN index
       THEN pc' = "panic" /\ shown' = shown
       ELSE pc' = "shown" /\ shown' = [i \in DOMAIN files |-> Row(files[i])]
    /\ UNCHANGED <<tokens, brackets, fields, locals, ret, raw_files, cursor, files,
                   index, ix, lexer>>

Next ==
    \/ NextFile
    \/ ParseFileLoop
    \/ ParseNamespace
    \/ ParseUse
    \/ ParseUseAs
    \/ ParseUseAlias
    \/ ParseAbstract
    \/ ParseFileSkip
    \/ ClassName
    \/ ClassExtendsKeyword
    \/ ClassExtends
    \/ ClassImplementsKeyword
    \/ ClassImplements
    \/ ClassOpen
    \/ Statement
    \/ StatementUse
    \/ MatchKeywordVisibility
    \/ MatchKeywordReadonly
    \/ MatchKeywordStatic
    \/ Synchronize
    \/ FunctionName
    \/ FunctionOpen
    \/ FunctionParams
    \/ FunctionColon
    \/ FunctionReturn
    \/ FunctionBodyOpen
    \/ ParseStmt
    \/ ParseStmtSkip
    \/ SwitchLoop
    \/ MatchLoop
    \/ Collect
    \/ IndexFile
    \/ DisplayFiles

\* ------------------------------------------------------------------------
\* Token streams handed to the parser
\* ------------------------------------------------------------------------
\* Tokenizer::identifier / number and the punctuation arms of
\* scan_token; the line is stamped by Lines
Id(lexeme) == [token_type |-> "Identifier", lexeme |-> lexeme]
Num(lexeme) == [token_type |-> "Number", lexeme |-> lexeme]
PhpTag == [token_type |-> "PhpTag", lexeme |-> "<?php"]
LParen == [token_type |-> "LeftParen", lexeme |-> "("]
RParen == [token_type |-> "RightParen", lexeme |-> ")"]
LBrace == [token_type |-> "LeftBrace", lexeme |-> "{"]
RBrace == [token_type |-> "RightBrace", lexeme |-> "}"]
Comma == [token_type |-> "Comma", lexeme |-> ","]
Semi == [token_type |-> "Semicolon", lexeme |-> ";"]
Colon == [token_type |-> "Colon", lexeme |-> ":"]
Question == [token_type |-> "Question", lexeme |-> "?"]
Equal == [token_type |-> "Equal", lexeme |-> "="]
FatArrow == [token_type |-> "FatArrow", lexeme |-> "=>"]
ThinArrow == [token_type |-> "ThinArrow", lexeme |-> "->"]
ColonColon == [token_type |-> "ColonColon", lexeme |-> "::"]
LBracket == [token_type |-> "LeftBracket", lexeme |-> "["]
RBracket == [token_type |-> "RightBracket", lexeme |-> "]"]

\* Token::new(token_type, self.line, lexeme) for the tokens of one source line
OnLine(toks, line) ==
    [i \in DOMAIN toks |->
        [token_type |-> toks[i].token_type, line |-> line, lexeme |-> toks[i].lexeme]]

\* the token stream of a text given line by line
RECURSIVE LinesFrom(_, _)
LinesFrom(lines, n) ==
    IF lines = <<>> THEN <<>>
    ELSE OnLine(Head(lines), n) \o LinesFrom(Tail(lines), n + 1)

Lines(lines) == LinesFrom(lines, 1)

BoundedSeq(S, n) == UNION {[1..k -> S] : k \in 0..n}

RECURSIVE Flatten(_)
Flatten(seqs) == IF seqs = <<>> THEN <<>> ELSE Head(seqs) \o Flatten(Tail(seqs))

\* namespace App; use App\Bar; class Foo extends Bar {
\*   public function baz(int $x): Bar { if ($x) { } return $x; } }
EndToEnd ==
    Lines(<<
        <<Id("namespace"), Id("App"), Semi>>,
        <<Id("use"), Id("App\\Bar"), Semi>>,
        <<Id("class"), Id("Foo"), Id("extends"), Id("Bar"), LBrace>>,
        <<Id("public"), Id("function"), Id("baz"), LParen, Id("int"), Id("$x"), RParen,
          Colon, Id("Bar"), LBrace>>,
        <<Id("if"), LParen, Id("$x"), RParen, LBrace, RBrace>>,
        <<Id("return"), Id("$x"), Semi>>,
        <<RBrace>>,
        <<RBrace>> >>)

\* a unit that takes the parser through every construct it knows
SinkHead ==
    << <<PhpTag>>,
       <<Id("namespace"), Id("App"), Semi>>,
       <<Id("use"), Id("Lib\\Baz"), Semi>>,
       <<Id("use"), Id("App\\Foo"), Id("as"), Id("Bar"), Semi>>,
       <<Id("Config"), ColonColon, Id("load"), LParen, RParen, Semi>>,
       <<Id("abstract"), Id("class"), Id("Sink"), Id("extends"), Id("Bar"),
         Id("implements"), Id("Countable"), Comma, Id("Baz"), LBrace>> >>

SinkMembers ==
    << <<Id("use"), Id("Helper"), Semi>>,
       <<Id("const"), Id("LIMIT"), Equal, Num("10"), Semi>>,
       <<Id("public"), Id("readonly"), Id("Foo"), Id("$foo"), Semi>>,
       <<Id("private"), Id("static"), Id("Baz"), Id("$shared"), Semi>>,
       <<Id("public"), Id("static"), Id("function"), Id("make"), LParen, Id("array"),
         Id("$opts"), Equal, Id("null"), RParen, Colon, Question, Id("Sink"), LBrace,
         Id("for"), LParen, Semi, Semi, RParen, LBrace, RBrace, RBrace>>,
       <<Id("abstract"), Id("protected"), Id("function"), Id("run"), LParen, Id("Bar"),
         Id("$job"), Comma, Id("int"), Id("$n"), RParen, Colon, Id("void"), Semi>> >>

SinkMethod ==
    << <<Id("public"), Id("function"), Id("handle"), LParen, Id("Baz"), Id("$b"), RParen,
         Colon, Id("Bar"), LBrace>>,
       <<Id("if"), LParen, Id("$b"), ThinArrow, Id("ready"), LParen, RParen, RParen,
         LBrace, Id("throw"), Id("$e"), Semi, RBrace>>,
       <<Id("switch"), LParen, Id("$b"), RParen, LBrace>>,
       <<Id("case"), Num("1"), Colon, Id("if"), LParen, Id("$x"), RParen, LBrace, RBrace>>,
       <<Id("case"), Num("2"), Colon, Id("switch"), LParen, Id("$y"), RParen, LBrace,
         Id("case"), Num("3"), Colon, RBrace>>,
       <<Id("match"), LParen, Id("$z"), RParen, LBrace, Num("1"), FatArrow, Num("2"),
         Comma, RBrace, Semi>>,
       <<Id("default"), Colon, RBrace>>,
       <<Id("match"), LParen, Id("$b"), RParen, LBrace, Num("1"), FatArrow, Num("2"),
         Comma, Num("3"), FatArrow, Num("4"), Comma, RBrace, Semi>>,
       <<Id("return"), Id("$b"), Semi>>,
       <<RBrace>>,
       <<Id("mixed"), Id("$loose"), Semi>>,
       <<RBrace>> >>

Sink == Lines(SinkHead \o SinkMembers \o SinkMethod)

\* namespace App; class A { }
UnitA ==
    Lines(<< <<Id("namespace"), Id("App"), Semi>>,
             <<Id("class"), Id("A"), LBrace, RBrace>> >>)

\* class B { public A $a; }   (no namespace directive of its own)
UnitB ==
    Lines(<< <<Id("class"), Id("B"), LBrace>>,
             <<Id("public"), Id("A"), Id("$a"), Semi>>,
             <<RBrace>> >>)

\* function helper() { }   (no class)
UnitFn ==
    Lines(<< <<PhpTag>>,
             <<Id("function"), Id("helper"), LParen, RParen, LBrace, RBrace>> >>)

\* namespace Lib; use Other\A; use Lib\Long as Z; if (true) { class C { } }
\* parse_file returns at the end of the class body: the last `}` stays in
\* the queue and the `{` of the `if` on the bracket stack
UnitLib ==
    Lines(<< <<Id("namespace"), Id("Lib"), Semi>>,
             <<Id("use"), Id("Other\\A"), Semi>>,
             <<Id("use"), Id("Lib\\Long"), Id("as"), Id("Z"), Semi>>,
             <<Id("if"), LParen, Id("true"), RParen, LBrace>>,
             <<Id("class"), Id("C"), LBrace, RBrace>>,
             <<RBrace>> >>)

PipeUnits == {UnitA, UnitB, UnitFn, UnitLib, EndToEnd, Sink}

\* ------------------------------------------------------------------------
\* Initial states
\* ------------------------------------------------------------------------
\* what read_dir pushes for the i-th file it finds
RECURSIVE PathOf(_)
PathOf(i) == IF i = 0 THEN ".php" ELSE "f" \o PathOf(i - 1)

HoursOf(i) == (i * 7) % 5

RawFile(path, content, last_accessed) ==
    [path |-> path, content |-> content, last_accessed |-> last_accessed]

RawFiles(contents) ==
    [i \in DOMAIN contents |-> RawFile(PathOf(i), contents[i], HoursOf(i))]

\* index() before the first file: Parser::new() and the empty collections
Start(contents) ==
    /\ raw_files = RawFiles(contents)
    /\ tokens = <<>>
    /\ brackets = <<>>
    /\ namespace = ""
    /\ uses = <<>>
    /\ aliases = <<>>
    /\ pc = "next_file"
    /\ class = NewClass
    /\ function = NoFunction
    /\ depth = 0
    /\ frames = <<>>
    /\ name = ""
    /\ ret = None
    /\ cursor = 1
    /\ files = <<>>
    /\ index = <<>>
    /\ ix = 1
    /\ shown = <<>>
    /\ source = ""
    /\ code = ""
    /\ lineno = 1
    /\ lexed = <<>>

\* ---- generated units: header lines, `class X {`, members, `}` ----
NamespaceLine == <<Id("namespace"), Id("App"), Semi>>

UseLines ==
    { <<Id("use"), Id("App\\Bar"), Semi>>,
      <<Id("use"), Id("App\\Foo"), Id("as"), Id("Bar"), Semi>>,
      <<Id("use"), Id("lib\\Foo"), Id("as"), Id("Baz"), Semi>>,
      <<Id("use"), Id("int"), Id("as"), Id("Qux"), Semi>> }

Headers ==
    {ns \o us : ns \in {<<>>, <<NamespaceLine>>},
                us \in BoundedSeq(UseLines, 1) \cup
                       {<<u1, u2>> : u1 \in {<<Id("use"), Id("App\\Bar"), Semi>>},
                                     u2 \in UseLines}}

\* the built-in type names of the dependency rules
BuiltInNames ==
    {"int", "string", "array", "bool", "float", "void", "mixed", "self", "static",
     "iterable"}

PropertyTypes == {"Bar", "Foo", "Baz", "$x"} \cup BuiltInNames
OtherTypes == {"Bar", "Foo", "$x", "int", "static", "self"}

MemberLines ==
    {<<Id("public"), Id(t), Id("$p"), Semi>> : t \in PropertyTypes}
    \cup {<<Id("private"), Id("readonly"), Id(t), Id("$p"), Semi>> : t \in OtherTypes}
    \cup {<<Id("static"), Id(t), Id("$p"), Semi>> : t \in OtherTypes}
    \cup {<<Id("use"), Id(t), Semi>> : t \in OtherTypes}
    \cup {<<Id("public"), Id("function"), Id("m"), LParen, Id(t), Id("$a"), RParen,
            Colon, Id(t), LBrace, RBrace>> : t \in OtherTypes}
    \cup {<<Id("const"), Id("C"), Equal, Num("1"), Semi>>}

GeneratedUnits ==
    {Lines(h \o <<<<Id("class"), Id("X"), LBrace>>>> \o ms \o <<<<RBrace>>>>) :
        h \in Headers, ms \in BoundedSeq(MemberLines, MaxMembers)}

\* ---- units without a class or trait declaration ----
\* return Foo::class;   return self::class;   $this->match();   if ($x) { }
PlainItems ==
    { <<Id("return"), Id("Foo"), ColonColon, Id("class"), Semi>>,
      <<Id("return"), Id("self"), ColonColon, Id("class"), Semi>>,
      <<Id("$this"), ThinArrow, Id("match"), LParen, RParen, Semi>>,
      <<Id("if"), LParen, Id("$x"), RParen, LBrace, RBrace>> }

\* <?php
\* function helper() {
\*   <items>
\* }
PlainUnit(items) ==
    Lines(<< <<PhpTag>>,
             <<Id("function"), Id("helper"), LParen, RParen, LBrace>>,
             Flatten(items),
             <<RBrace>> >>)

\* interface I { public function f(); }
InterfaceUnit ==
    Lines(<< <<PhpTag>>,
             <<Id("interface"), Id("I"), LBrace>>,
             <<Id("public"), Id("function"), Id("f"), LParen, RParen, Semi>>,
             <<RBrace>> >>)

PlainUnits ==
    {PlainUnit(items) : items \in BoundedSeq(PlainItems, MaxMembers)}
    \cup {InterfaceUnit}

Units == GeneratedUnits \cup PlainUnits \cup {EndToEnd, Sink}

\* ---- generated function bodies ----
\* the line on which the generated units put a function body
BodyLine == 3

\* class X {
\*   public function f() {
\*     <body>
\*   } }
FnUnit(body) ==
    Lines(<< <<Id("class"), Id("X"), LBrace>>,
             <<Id("public"), Id("function"), Id("f"), LParen, RParen, LBrace>>,
             body,
             <<RBrace>>,
             <<RBrace>> >>)

\* the arms of a match:  1 => 2,   1 => [1 => 2],   1 => match ($y) { 1 => 2, },
MatchArms ==
    { <<Num("1"), FatArrow, Num("2"), Comma>>,
      <<Num("1"), FatArrow, LBracket, Num("1"), FatArrow, Num("2"), RBracket, Comma>>,
      <<Num("1"), FatArrow, Id("match"), LParen, Id("$y"), RParen, LBrace,
        Num("1"), FatArrow, Num("2"), Comma, RBrace, Comma>> }

\* match ($x) { <arms> };
MatchOf(arms) ==
    <<Id("match"), LParen, Id("$x"), RParen, LBrace>> \o Flatten(arms)
        \o <<RBrace, Semi>>

MatchUnits == {FnUnit(MatchOf(arms)) : arms \in BoundedSeq(MatchArms, MaxArms)}

\* the items of a switch body, each with the number of `case` labels and the
\* control statements it holds directly
SwitchItem(toks, cases, stmts) == [toks |-> toks, cases |-> cases, stmts |-> stmts]

SwitchItems ==
    { \* case 1: break;
      SwitchItem(<<Id("case"), Num("1"), Colon, Id("break"), Semi>>, 1, <<>>),
      \* case 1: if ($x) { }
      SwitchItem(<<Id("case"), Num("1"), Colon, Id("if"), LParen, Id("$x"), RParen,
                   LBrace, RBrace>>, 1, <<Stmt("If", BodyLine)>>),
      \* default: while ($x) { }
      SwitchItem(<<Id("default"), Colon, Id("while"), LParen, Id("$x"), RParen,
                   LBrace, RBrace>>, 0, <<>>),
      \* case 1: switch ($y) { case 2: case 3: foreach ($y) { } }
      SwitchItem(<<Id("case"), Num("1"), Colon, Id("switch"), LParen, Id("$y"), RParen,
                   LBrace, Id("case"), Num("2"), Colon, Id("case"), Num("3"), Colon,
                   Id("foreach"), LParen, Id("$y"), RParen, LBrace, RBrace, RBrace>>,
                 1, <<SwitchStmt(2, <<Stmt("Foreach", BodyLine)>>, BodyLine)>>),
      \* case 1: match ($y) { 1 => 2, };
      SwitchItem(<<Id("case"), Num("1"), Colon, Id("match"), LParen, Id("$y"), RParen,
                   LBrace, Num("1"), FatArrow, Num("2"), Comma, RBrace, Semi>>,
                 1, <<MatchStmt(1, BodyLine)>>) }

\* switch ($x) { <items> }
SwitchOf(items) ==
    <<Id("switch"), LParen, Id("$x"), RParen, LBrace>>
        \o Flatten([i \in DOMAIN items |-> items[i].toks]) \o <<RBrace>>

SwitchUnits == {FnUnit(SwitchOf(items)) : items \in BoundedSeq(SwitchItems, MaxCases)}

\* the ends of a method after `)`, each with the Function fields it gives:
\*   ;    : Bar ;    { }    { if ($x) { } }    { if ($x) { } for ($x) { } }
MethodEnd(toks, stmts, return_type, is_abstract) ==
    [toks |-> toks, stmts |-> stmts, return_type |-> return_type,
     is_abstract |-> is_abstract]

AbstractEnds ==
    { MethodEnd(<<Semi>>, <<>>, None, TRUE),
      MethodEnd(<<Colon, Id("Bar"), Semi>>, <<>>, Some("\\Bar"), TRUE) }

BodyEnds ==
    { MethodEnd(<<LBrace, RBrace>>, <<>>, None, FALSE),
      MethodEnd(<<LBrace, Id("if"), LParen, Id("$x"), RParen, LBrace, RBrace, RBrace>>,
                <<Stmt("If", BodyLine)>>, None, FALSE) }

LongEnd ==
    MethodEnd(<<LBrace, Id("if"), LParen, Id("$x"), RParen, LBrace, RBrace,
                Id("for"), LParen, Id("$x"), RParen, LBrace, RBrace, RBrace>>,
              <<Stmt("If", BodyLine), Stmt("For", BodyLine)>>, None, FALSE)

\* public function <name>() <end>, with the Function it declares
Method(fname, end) ==
    [toks |-> <<Id("public"), Id("function"), Id(fname), LParen, RParen>> \o end.toks,
     declares |-> NewFunction(fname, end.stmts, 0, end.return_type, "Public",
                              end.is_abstract)]

Methods ==
    {Method(fname, end) : fname \in {"__construct", "a"},
                          end \in AbstractEnds \cup BodyEnds}
    \cup {Method("b", LongEnd)}

\* class X {
\*
\*   <methods>
\* }
MethodUnit(methods) ==
    Lines(<< <<Id("class"), Id("X"), LBrace>>,
             <<>>,
             Flatten([i \in DOMAIN methods |-> methods[i].toks]),
             <<RBrace>> >>)

MethodUnits == {MethodUnit(methods) : methods \in BoundedSeq(Methods, MaxMethods)}

\* ---- units whose class names one type at every call of find_type ----
ImportPaths == {"App\\Bar", "Lib\\Bar", "Lib\\Foo"}

TypeNames == {"Bar", "Foo", "\\Bar", "Lib\\Bar", "int", "self"}

\* [namespace App;] use ...; class X extends T { use T; public T $p;
\* public function m(T $a): T { } }
ResolveUnit(ns, imports, t) ==
    Lines(ns
          \o [i \in DOMAIN imports |-> <<Id("use"), Id(imports[i]), Semi>>]
          \o << <<Id("class"), Id("X"), Id("extends"), Id(t), LBrace>>,
                <<Id("use"), Id(t), Semi>>,
                <<Id("public"), Id(t), Id("$p"), Semi>>,
                <<Id("public"), Id("function"), Id("m"), LParen, Id(t), Id("$a"), RParen,
                  Colon, Id(t), LBrace, RBrace>>,
                <<RBrace>> >>)

ResolveUnits ==
    {ResolveUnit(ns, imports, t) : ns \in {<<>>, <<NamespaceLine>>},
                                   imports \in BoundedSeq(ImportPaths, MaxUses),
                                   t \in TypeNames}
    \cup {Sink}

\* ---- function bodies of free tokens without brackets ----
StmtAlphabet ==
    {Id(w) : w \in {"if", "elseif", "for", "foreach", "throw", "catch", "while", "else",
                    "$a"}}
    \cup {Semi, ThinArrow, ColonColon}

\* $a = $b->c; foreach ($x) { }
SampleBody ==
    <<Id("$a"), Equal, Id("$b"), ThinArrow, Id("c"), Semi,
      Id("foreach"), LParen, Id("$x"), RParen, LBrace, RBrace>>

\* the tokens inside the braces of a generated switch or match: no brackets
InnerAlphabet ==
    {Id(w) : w \in {"case", "$this", "match", "switch"}}
    \cup {Colon, Semi, ThinArrow, ColonColon, FatArrow}

\* switch ($x) { <inner> }   and   match ($x) { <inner> }
Construct(word, inner) ==
    <<Id(word), LParen, Id("$x"), RParen, LBrace>> \o inner \o <<RBrace>>

ConstructUnits ==
    {FnUnit(Construct(word, inner)) : word \in {"switch", "match"},
                                      inner \in BoundedSeq(InnerAlphabet, MaxBody)}

\* the members of a class body, each with the function name and the
\* dependency it declares when it is parsed
Member(toks, declared, dependency) ==
    [toks |-> toks, declared |-> declared, dependency |-> dependency]

RecoveryMembers ==
    { \* const C = [1 => 2];
      Member(<<Id("const"), Id("C"), Equal, LBracket, Num("1"), FatArrow, Num("2"),
               RBracket, Semi>>, None, None),
      \* public self $s;
      Member(<<Id("public"), Id("self"), Id("$s"), Semi>>, None, None),
      \* public Foo $f;
      Member(<<Id("public"), Id("Foo"), Id("$f"), Semi>>, None, Some("App\\Foo")),
      \* public Bar $b;
      Member(<<Id("public"), Id("Bar"), Id("$b"), Semi>>, None, Some("App\\Bar")),
      \* public function m() { }
      Member(<<Id("public"), Id("function"), Id("m"), LParen, RParen, LBrace, RBrace>>,
             Some("m"), None),
      \* public function n() { if ($x) { } }
      Member(<<Id("public"), Id("function"), Id("n"), LParen, RParen, LBrace,
               Id("if"), LParen, Id("$x"), RParen, LBrace, RBrace, RBrace>>,
             Some("n"), None) }

\* namespace App;
\* class X {
\*   <members>
\* }
RecoveryUnit(members) ==
    Lines(<< NamespaceLine,
             <<Id("class"), Id("X"), LBrace>>,
             Flatten([i \in DOMAIN members |-> members[i].toks]),
             <<RBrace>> >>)

RecoveryUnits ==
    {RecoveryUnit(members) : members \in BoundedSeq(RecoveryMembers, MaxMethods)}

StmtUnits ==
    RecoveryUnits \cup
    {FnUnit(body) : body \in BoundedSeq(StmtAlphabet, MaxBody) \cup {SampleBody}}
    \cup ConstructUnits
    \cup {Sink}

\* ---- texts handed to the Tokenizer ----
RECURSIVE Text(_)
Text(chars) == IF chars = <<>> THEN "" ELSE Head(chars) \o Text(Tail(chars))

LexAlphabet == {" ", "\n", "'", "\"", "\\", "a", "/", "*"}

\* texts that take scan_token through its other arms
SampleTexts ==
    { "<?php\nnamespace App;\n",
      "$a->b(12.5, 7) !== [1 => 'x'];",
      "x <= 1 || y >= 2 && !z == w != v === u",
      "<<<EOT\nline\nEOT;\n",
      "<<<'EOT'\na\nEOT",
      "<<<EOT\nline",
      "<<<A\nxA y\nA;\n",
      "<<<A\nAB\nA\n$a",
      "// note\nFoo::class . #@%+-|&?:<>",
      "/* a\n b */ A_1\\B\t\r\n",
      " 'string';\n    \"String with a 'string' inside\";\n  ",
      "a ^ b",
      "a // b" }

Texts == {Text(chars) : chars \in BoundedSeq(LexAlphabet, MaxText)} \cup SampleTexts

\* ---- free token streams: a parsing context followed by arbitrary tokens ----
Contexts ==
    { <<>>,
      <<Id("class"), Id("X"), LBrace>>,
      <<Id("class"), Id("X"), LBrace, Id("function"), Id("f"), LParen>>,
      <<Id("class"), Id("X"), LBrace, Id("function"), Id("f"), LParen, RParen, LBrace>>,
      <<Id("class"), Id("X"), LBrace, Id("function"), Id("f"), LParen, RParen, LBrace,
        Id("switch"), LParen, Id("$x"), RParen, LBrace>>,
      <<Id("class"), Id("X"), LBrace, Id("function"), Id("f"), LParen, RParen, LBrace,
        Id("match"), LParen, Id("$x"), RParen, LBrace>> }

Alphabet == {LParen, RParen, LBrace, RBrace, LBracket, RBracket, Semi, ThinArrow, Id("$x")}

Streams ==
    {Lines(<<c \o t>>) : c \in Contexts, t \in BoundedSeq(Alphabet, MaxSuffix)}
    \cup {Sink}

\* one file holding a class-shaped unit
Init == \E content \in Units : Start(<<content>>)

Spec == Init /\ [][Next]_vars

\* one file holding a free token stream
InitTok == \E content \in Streams : Start(<<content>>)

SpecTok == InitTok /\ [][Next]_vars

\* a directory of up to MaxFiles files
InitPipe == \E contents \in BoundedSeq(PipeUnits, MaxFiles) : Start(contents)

SpecPipe == InitPipe /\ [][Next]_vars

\* one file holding a unit generated for name resolution
InitResolve == \E content \in ResolveUnits : Start(<<content>>)

SpecResolve == InitResolve /\ [][Next]_vars

\* one file holding a class with a function body of free tokens
InitStmt == \E content \in StmtUnits : Start(<<content>>)

SpecStmt == InitStmt /\ [][Next]_vars

\* one file holding a generated switch, match or class body; the run goes on
\* as long as a step is possible: the process executes its code until it
\* returns or exits
InitLive == \E content \in ConstructUnits \cup RecoveryUnits \cup {Sink} : Start(<<content>>)

SpecLive == InitLive /\ [][Next]_vars /\ WF_vars(Next)

\* Tokenizer::new(&file.content).collect() on one text
InitLex ==
    \E text \in Texts :
        /\ source = text
        /\ code = text
        /\ lineno = 1
        /\ lexed = <<>>
        /\ pc = "scan"
        /\ raw_files = <<>>
        /\ tokens = <<>>
        /\ brackets = <<>>
        /\ namespace = ""
        /\ uses = <<>>
        /\ aliases = <<>>
        /\ class = NewClass
        /\ function = NoFunction
        /\ depth = 0
        /\ frames = <<>>
        /\ name = ""
        /\ ret = None
        /\ cursor = 1
        /\ files = <<>>
        /\ index = <<>>
        /\ ix = 1
        /\ shown = <<>>

SpecLex == InitLex /\ [][NextLex]_vars

\* one file holding a class with generated function bodies
BodyUnits == MatchUnits \cup SwitchUnits \cup MethodUnits \cup {Sink}

InitBody == \E content \in BodyUnits : Start(<<content>>)

SpecBody == InitBody /\ [][Next]_vars

\* ------------------------------------------------------------------------
\* Properties
\* ------------------------------------------------------------------------
\* parse_file has returned Some(class) for the current file
Returned == pc = "ret" /\ ret # None

\* the tokens of the file being parsed
Content == IF cursor \in DOMAIN raw_files THEN raw_files[cursor].content ELSE <<>>

\* C1: every Class returned by parse_file holds each fully-qualified name at
\* most once in `dependencies` (after the imports were added and the aliases
\* rewritten).
C1_DependenciesUnique ==
    Returned =>
        \A i, j \in DOMAIN ret[1].dependencies :
            i # j => ret[1].dependencies[i] # ret[1].dependencies[j]

\* C2: no built-in type name is an entry of a returned Class's `dependencies`,
\* whatever the position of the built-in and whatever the imports.
C2_NoBuiltInDependency ==
    Returned =>
        \A i \in DOMAIN ret[1].dependencies : ret[1].dependencies[i] \notin BuiltInNames

\* C3: no entry of a returned Class's `dependencies` comes from a lexeme that
\* starts with `$`: no path segment of an entry is a variable reference.
C3_NoVariableDependency ==
    Returned =>
        \A i \in DOMAIN ret[1].dependencies :
            \A k \in DOMAIN Split(ret[1].dependencies[i]) :
                ~StartsWith(Split(ret[1].dependencies[i])[k], "$")

\* the class body names the type `bare` in a typed position: after a
\* visibility, `readonly` or `static`, as a parameter type or as a return type
TypedWith(content, bare) ==
    \E i \in 2..Len(content) :
        /\ content[i].token_type = "Identifier"
        /\ content[i].lexeme = bare
        /\ content[i - 1].lexeme \in
               {"public", "private", "protected", "readonly", "static", "(", ":"}

\* C4: with `use P\N as A;` and a member typed with the bare name A, the
\* returned Class records the original name P\N, and neither A nor P\A remains
\* in `dependencies`.
C4_AliasResolved ==
    Returned =>
        \A k \in DOMAIN aliases :
            LET bare == Last(Split(aliases[k].alias))
            IN TypedWith(Content, bare) =>
                   /\ Contains(ret[1].dependencies, aliases[k].name)
                   /\ ~Contains(ret[1].dependencies, bare)
                   /\ ~Contains(ret[1].dependencies, aliases[k].alias)

\* C5: the end-to-end unit, parsed by a fresh Parser, returns the Class
\* App\Foo extending App\Bar with the single function baz (one parameter,
\* return type App\Bar, public, not abstract, complexity 2) and the
\* dependencies [App\Bar].
C5_EndToEnd ==
    Content = EndToEnd /\ cursor = 1 =>
        /\ pc \notin {"exit", "panic"}
        /\ pc = "ret" =>
              /\ ret # None
              /\ ret[1].name = "App\\Foo"
              /\ ret[1].extends = Some("App\\Bar")
              /\ Len(ret[1].functions) = 1
              /\ ret[1].functions[1].name = "baz"
              /\ ret[1].functions[1].params = 1
              /\ ret[1].functions[1].return_type = Some("App\\Bar")
              /\ ret[1].functions[1].visibility = "Public"
              /\ ret[1].functions[1].is_abstract = FALSE
              /\ Complexity(ret[1].functions[1]) = 2
              /\ ret[1].dependencies = <<"App\\Bar">>

C5_Witness == Returned /\ Content = EndToEnd /\ cursor = 1 /\ tokens = <<>>

\* the positions <<file, entry>> of the dependencies lists that hold n
Occurrences(n) ==
    {p \in UNION {{<<i, j>> : j \in DOMAIN files[i].class.dependencies} :
                      i \in DOMAIN files} :
        files[p[1]].class.dependencies[p[2]] = n}

\* C6: after the indexing pass the keys of the index are the parsed class
\* names and all their dependencies, and every count is the number of
\* occurrences of the key in the dependencies lists of all parsed files.
C6_IndexCounts ==
    pc = "done" =>
        /\ DOMAIN index =
               {files[i].class.name : i \in DOMAIN files}
               \cup UNION {{files[i].class.dependencies[j] :
                               j \in DOMAIN files[i].class.dependencies} :
                           i \in DOMAIN files}
        /\ \A n \in DOMAIN index : index[n] = Cardinality(Occurrences(n))

\* classes A (no dependencies) and B (depends on A) were indexed
C6_Witness ==
    /\ pc = "done"
    /\ Len(files) = 2
    /\ index = ("App\\A" :> 1) @@ ("App\\B" :> 0)

\* the content of the input file with this path
ContentOf(path) == raw_files[CHOOSE k \in DOMAIN raw_files : raw_files[k].path = path].content

\* C7: the Class produced for a file depends only on the file's own content:
\* two files with equal content give equal Class values, whatever was parsed
\* before them.
C7_ClassDependsOnlyOnFile ==
    \A i, j \in DOMAIN files :
        ContentOf(files[i].path) = ContentOf(files[j].path)
            => files[i].class = files[j].class

\* the paths of the input files that have an output File, in input order
KeptPaths ==
    LET Kept(raw) == \E i \in DOMAIN files : files[i].path = raw.path
        kept == SelectSeq(raw_files, Kept)
    IN [i \in DOMAIN kept |-> kept[i].path]

\* C8: the output file list is the input list, in input order, restricted to
\* the files for which parse_file returned a Class; a file yielding None adds
\* nothing, and each File carries the path and last_accessed of its own input.
C8_FilesFollowInput ==
    /\ [](/\ [i \in DOMAIN files |-> files[i].path] = KeptPaths
          /\ \A i \in DOMAIN files :
                \E k \in 1..(cursor - 1) :
                    /\ raw_files[k].path = files[i].path
                    /\ raw_files[k].last_accessed = files[i].last_accessed)
    /\ [][IF pc = "ret"
          THEN /\ cursor' = cursor + 1
               /\ IF ret # None
                  THEN /\ Len(files') = Len(files) + 1
                       /\ SubSeq(files', 1, Len(files)) = files
                       /\ Last(files').class = ret[1]
                       /\ Last(files').path = raw_files[cursor].path
                       /\ Last(files').last_accessed = raw_files[cursor].last_accessed
                  ELSE files' = files
          ELSE files' = files /\ cursor' = cursor]_vars

\* a directory whose first file has no class and whose last file has one
C8_Witness ==
    /\ pc = "done"
    /\ Len(raw_files) = 3
    /\ Len(files) = 2
    /\ files[1].path = raw_files[2].path
    /\ files[2].path = raw_files[3].path

\* C9: a consumed `)` or `}` ends the run in a structural fault when the
\* bracket stack is empty or its top is the other kind of opener, and no token
\* is consumed after the fault; otherwise exactly the top entry is popped.  A
\* consumed `(` or `{` pushes exactly that opener.
C9_BracketDiscipline ==
    [][/\ pc # "exit"
       /\ (pc # "next_file" /\ tokens # <<>> /\ tokens' = Tail(tokens)) =>
              LET token_type == Head(tokens).token_type
                  opener == IF token_type = "RightParen" THEN "LeftParen" ELSE "LeftBrace"
              IN /\ token_type \in {"RightParen", "RightBrace"} =>
                        IF brackets = <<>> \/ Last(brackets) # opener
                        THEN pc' = "exit"
                        ELSE brackets' = Front(brackets) /\ pc' # "exit"
                 /\ token_type \in {"LeftParen", "LeftBrace"} =>
                        brackets' = Append(brackets, token_type) /\ pc' # "exit"]_vars

\* the run has ended on a closer that does not match the top of the stack
C9_Witness ==
    /\ pc = "exit"
    /\ tokens # <<>>
    /\ brackets # <<>>
    /\ Content[Len(Content) - Len(tokens)].token_type = "RightBrace"

\* the `(`, `)`, `{`, `}` tokens of a stream are properly nested and balanced
RECURSIVE BalancedFrom(_, _)
BalancedFrom(toks, open) ==
    IF toks = <<>> THEN open = <<>>
    ELSE IF Head(toks).token_type \in {"LeftParen", "LeftBrace"}
    THEN BalancedFrom(Tail(toks), Append(open, Head(toks).token_type))
    ELSE IF Head(toks).token_type \in {"RightParen", "RightBrace"}
    THEN /\ open # <<>>
         /\ Last(open) = (IF Head(toks).token_type = "RightParen" THEN "LeftParen"
                          ELSE "LeftBrace")
         /\ BalancedFrom(Tail(toks), Front(open))
    ELSE BalancedFrom(Tail(toks), open)

\* C10: parse_file returns normally (Some or None) only on token streams
\* whose brackets are properly nested and balanced; every other stream ends
\* the run in a structural fault.
C10_UnbalancedFaults ==
    pc = "ret" => BalancedFrom(Content, <<>>)

\* the single function of a unit built by FnUnit
TheFunction == ret[1].functions[1]

\* the tokens of the current file that stand on the body line, without
\* their line
OnBodyLine(token) == token.line = BodyLine

BodyTokens ==
    LET body == SelectSeq(Content, OnBodyLine)
    IN [i \in DOMAIN body |->
           [token_type |-> body[i].token_type, lexeme |-> body[i].lexeme]]

\* the items of Items whose tokens, one after the other, make up toks (no
\* item's tokens begin another's); reading stops where no item fits
RECURSIVE Decode(_, _)
Decode(toks, Items) ==
    LET fits == {item \in Items :
                    /\ Len(item.toks) <= Len(toks)
                    /\ SubSeq(toks, 1, Len(item.toks)) = item.toks}
    IN IF toks = <<>> \/ fits = {} THEN <<>>
       ELSE LET item == CHOOSE item \in fits : TRUE
            IN <<item>> \o Decode(SubSeq(toks, Len(item.toks) + 1, Len(toks)), Items)

\* the arms, switch items and methods the current file was built from, when
\* it is a unit of MatchUnits, SwitchUnits or MethodUnits
ArmsOf ==
    LET read == Decode(SubSeq(BodyTokens, 6, Len(BodyTokens) - 2),
                       {[toks |-> arm] : arm \in MatchArms})
    IN [i \in DOMAIN read |-> read[i].toks]

ItemsOf == Decode(SubSeq(BodyTokens, 6, Len(BodyTokens) - 1), SwitchItems)

MethodsOf == Decode(BodyTokens, Methods)

\* C11: a match statement gives one Match Stmt whose case_count, and so its
\* complexity, is the number of its arms, whatever the arms contain.
C11_MatchCountsArms ==
    (Returned /\ Content = FnUnit(MatchOf(ArmsOf))) =>
        /\ TheFunction.stmts = <<MatchStmt(Len(ArmsOf), BodyLine)>>
        /\ StmtComplexity(TheFunction.stmts[1]) = Len(ArmsOf)

RECURSIVE CasesOf(_)
CasesOf(items) ==
    IF items = <<>> THEN 0 ELSE Head(items).cases + CasesOf(Tail(items))

\* the number of control statements in a list of statements, those nested in
\* a switch included, a match counting for its arms and a switch for its cases
RECURSIVE Score(_)
Score(stmts) ==
    IF stmts = <<>> THEN 0
    ELSE (CASE Head(stmts).kind = "Match" -> Head(stmts).case_count
            [] Head(stmts).kind = "Switch" ->
                   Head(stmts).case_count + Score(Head(stmts).stmts)
            [] OTHER -> 1)
         + Score(Tail(stmts))

\* C12: a switch statement gives one Switch Stmt whose case_count is the
\* number of `case` labels directly in its body (`default` not counted) and
\* whose stmts are the control statements of its body; its complexity is
\* case_count plus the complexities of the nested statements, recursively.
C12_SwitchCountsCases ==
    (Returned /\ Content = FnUnit(SwitchOf(ItemsOf))) =>
        LET nested == Flatten([i \in DOMAIN ItemsOf |-> ItemsOf[i].stmts])
        IN /\ TheFunction.stmts = <<SwitchStmt(CasesOf(ItemsOf), nested, BodyLine)>>
           /\ StmtComplexity(TheFunction.stmts[1]) = CasesOf(ItemsOf) + Score(nested)
           /\ Complexity(TheFunction) = 1 + CasesOf(ItemsOf) + Score(nested)

\* three `case` labels and one `if` inside an arm: the switch scores 4
C12_Witness ==
    /\ Returned
    /\ Content = FnUnit(SwitchOf(ItemsOf))
    /\ CasesOf(ItemsOf) = 3
    /\ Flatten([i \in DOMAIN ItemsOf |-> ItemsOf[i].stmts]) = <<Stmt("If", BodyLine)>>
    /\ StmtComplexity(TheFunction.stmts[1]) = 4

\* the positions of the functions that are not the constructor
Counted(functions) == {j \in DOMAIN functions : functions[j].name # "__construct"}

\* the sum of 1 + (control statements) over the functions at these positions
RECURSIVE Total(_, _)
Total(functions, positions) ==
    IF positions = {} THEN 0
    ELSE LET j == CHOOSE k \in positions : TRUE
         IN 1 + Score(functions[j].stmts) + Total(functions, positions \ {j})

\* C13: the average complexity printed for a class is the sum of the
\* complexities of its functions other than `__construct` divided by their
\* number, and 0 when there is no such function; the divisor is never 0.
C13_AverageComplexity ==
    pc = "shown" =>
        \A i \in DOMAIN shown :
            LET functions == files[i].class.functions
                count == Cardinality(Counted(functions))
                average == shown[i].average
            IN /\ average.len # 0
               /\ count = 0 => average.sum = 0
               /\ count > 0 =>
                      average.sum * count = Total(functions, Counted(functions)) * average.len

\* a class whose constructor is its most complex function was shown: the
\* constructor scores 2, the two other functions score 1 each, the average is 2 / 2
C13_Witness ==
    /\ pc = "shown"
    /\ Len(shown) = 1
    /\ shown[1].functions = 3
    /\ files[1].class.functions[1].name = "__construct"
    /\ shown[1].highest = 2
    /\ shown[1].average = Quotient(2, 2)

\* C14: the functions of a returned Class are the declared functions, ordered
\* by non-increasing complexity, functions of equal complexity keeping their
\* declaration order.
C14_FunctionsSorted ==
    Returned =>
        /\ \A i, j \in DOMAIN ret[1].functions :
               i < j => Complexity(ret[1].functions[i]) >= Complexity(ret[1].functions[j])
        /\ Content = MethodUnit(MethodsOf) =>
               /\ Len(ret[1].functions) = Len(MethodsOf)
               /\ \E at \in Permutations(DOMAIN MethodsOf) :
                      /\ \A i \in DOMAIN MethodsOf :
                             ret[1].functions[i] = MethodsOf[at[i]].declares
                      /\ \A i, j \in DOMAIN MethodsOf :
                             (/\ i < j
                              /\ Complexity(ret[1].functions[i])
                                     = Complexity(ret[1].functions[j]))
                                 => at[i] < at[j]

\* three functions were declared in the order 1, 2, 1 of their complexities
\* and returned in the order 2, 1, 1, the two of complexity 1 as declared
C14_Witness ==
    /\ Returned
    /\ Content = MethodUnit(MethodsOf)
    /\ Len(MethodsOf) = 3
    /\ Complexity(MethodsOf[1].declares) = 1
    /\ Complexity(MethodsOf[2].declares) = 2
    /\ Complexity(MethodsOf[3].declares) = 1
    /\ MethodsOf[1].declares # MethodsOf[3].declares
    /\ ret[1].functions =
           <<MethodsOf[2].declares, MethodsOf[1].declares, MethodsOf[3].declares>>

\* the functions that occur once more in `new` than in `old`
Added(new, old) ==
    {new[k] : k \in {i \in DOMAIN new :
                        Cardinality({j \in DOMAIN new : new[j] = new[i]})
                            = Cardinality({j \in DOMAIN old : old[j] = new[i]}) + 1}}

\* C15: a Function is abstract only with an empty stmts; a function is
\* abstract exactly when the token after its signature is `;`, and then it is
\* finished by the step that consumes the `;`, which consumes nothing else.
C15_AbstractHasNoBody ==
    /\ [](\A i \in DOMAIN class.functions :
              class.functions[i].is_abstract => class.functions[i].stmts = <<>>)
    /\ [][Len(class'.functions) = Len(class.functions) + 1 =>
              \A f \in Added(class'.functions, class.functions) :
                 /\ f.is_abstract <=>
                        (pc = "fn_body_open" /\ Head(tokens).token_type = "Semicolon")
                 /\ f.is_abstract => tokens' = Tail(tokens) /\ f.stmts = <<>>]_vars

\* the `;` after `function a()` has just been consumed and the abstract
\* function is among the functions of the class, with more members to come
C15_Witness ==
    /\ pc = "cl_stmt"
    /\ class.functions # <<>>
    /\ Last(class.functions).is_abstract
    /\ Last(class.functions).return_type = None
    /\ tokens # <<>>
    /\ Content[Len(Content) - Len(tokens)].token_type = "Semicolon"

\* C16: on a unit without a class or trait declaration parse_file consumes
\* the whole token stream and returns None; a `class` that is the member name
\* after `::` does not start a declaration.
C16_NoClassGivesNone ==
    (cursor = 1 /\ Content \in PlainUnits) =>
        /\ ret = None
        /\ pc \in {"next_file", "pf_loop", "pf_skip1", "pf_skip2", "ret"}
        /\ pc = "ret" => tokens = <<>>

\* every generated unit is read back as the items it was built from
ReadBack ==
    /\ Content \in MatchUnits => Content = FnUnit(MatchOf(ArmsOf))
    /\ Content \in SwitchUnits => Content = FnUnit(SwitchOf(ItemsOf))
    /\ Content \in MethodUnits => Content = MethodUnit(MethodsOf)

\* the characters of the text that the Tokenizer has consumed
Consumed == SubSeq(source, 1, Len(source) - Len(code))

\* the number of characters of str that are in the set chars
CountIn(str, chars) == Cardinality({i \in 1..Len(str) : SubSeq(str, i, i) \in chars})

\* C17: every token carries line = 1 + the number of newlines consumed up
\* to its end, so the lines never decrease along the token stream, and
\* whitespace gives no token: there are never more tokens than consumed
\* characters that are not whitespace.
C17_LineStamps ==
    /\ [][lexed' # lexed =>
              /\ Len(lexed') = Len(lexed) + 1
              /\ Last(lexed').line =
                     1 + CountIn(SubSeq(source, 1, Len(source) - Len(code')), {"\n"})]_vars
    /\ [][LET taken == SubSeq(code, 1, Len(code) - Len(code'))
          IN CountIn(taken, {" ", "\r", "\t", "\n"}) = Len(taken) => lexed' = lexed]_vars
    /\ [](/\ \A i, j \in DOMAIN lexed : i < j => lexed[i].line <= lexed[j].line
          /\ Len(lexed) <= Len(Consumed) - CountIn(Consumed, {" ", "\r", "\t", "\n"}))

\* a token was stamped with line 3 after a token of line 1
C17_Witness ==
    /\ pc = "lexed"
    /\ Len(lexed) = 2
    /\ lexed[1].line = 1
    /\ lexed[2].line = 3
    /\ lexed[2].token_type = "Identifier"

\* the backslashes that stand directly before position k of str
RECURSIVE BackslashesBefore(_, _)
BackslashesBefore(str, k) ==
    IF k > 1 /\ SubSeq(str, k - 1, k - 1) = "\\" THEN 1 + BackslashesBefore(str, k - 1)
    ELSE 0

\* the positions of str that hold q after an even number of backslashes
Closers(str, q) ==
    {k \in 1..Len(str) : SubSeq(str, k, k) = q /\ BackslashesBefore(str, k) % 2 = 0}

\* str without its leading whitespace
RECURSIVE Trimmed(_)
Trimmed(str) ==
    IF str # "" /\ First(str) \in {" ", "\r", "\t", "\n"} THEN Trimmed(Rest(str)) ELSE str

\* C18: a string literal opened with q gives one String token whose lexeme
\* is the text up to the first later q that follows an even number of
\* backslashes, the other quote being ordinary content, and scanning goes on
\* right after that q; without such a q the run ends in a lexical fault and
\* no token is added.
C18_StringLiteral ==
    [][(pc = "scan" /\ Trimmed(code) # "" /\ First(Trimmed(code)) \in {"'", "\""}) =>
          LET q == First(Trimmed(code))
              literal == Rest(Trimmed(code))
              closers == Closers(literal, q)
          IN IF closers = {}
             THEN pc' = "exit" /\ lexed' = lexed
             ELSE LET k == CHOOSE c \in closers : \A d \in closers : c <= d
                  IN /\ pc' = "scan"
                     /\ Len(lexed') = Len(lexed) + 1
                     /\ SubSeq(lexed', 1, Len(lexed)) = lexed
                     /\ Last(lexed').token_type = "String"
                     /\ Last(lexed').lexeme = SubSeq(literal, 1, k - 1)
                     /\ code' = SubSeq(literal, k + 1, Len(literal))]_vars

\* the literal '\'' was lexed: its lexeme is the backslash and the quote
C18_Witness ==
    /\ pc = "lexed"
    /\ source = "'\\''"
    /\ lexed = <<[token_type |-> "String", line |-> 1, lexeme |-> "\\'"]>>

\* the name of the last `namespace` directive of a unit, None without one
DirectiveOf(content) ==
    LET at == {i \in 1..(Len(content) - 1) :
                  /\ content[i].token_type = "Identifier"
                  /\ content[i].lexeme = "namespace"}
    IN IF at = {} THEN None
       ELSE Some(content[(CHOOSE i \in at : \A j \in at : j <= i) + 1].lexeme)

\* the namespace of the most recent of the first k units that has a directive
RECURSIVE DeclaredUpTo(_)
DeclaredUpTo(k) ==
    IF k = 0 THEN ""
    ELSE IF DirectiveOf(raw_files[k].content) # None THEN DirectiveOf(raw_files[k].content)[1]
    ELSE DeclaredUpTo(k - 1)

\* the position of the input file with this path
InputOf(path) == CHOOSE k \in DOMAIN raw_files : raw_files[k].path = path

\* the lexeme after the first `class` or `trait` token of a unit
DeclaredClass(content) ==
    LET at == {i \in 1..(Len(content) - 1) : content[i].lexeme \in {"class", "trait"}}
    IN content[(CHOOSE i \in at : \A j \in at : i <= j) + 1].lexeme

\* C19: the start of parse_file empties uses, aliases and the bracket
\* stack, replaces the token queue by the tokens of the new unit and leaves
\* the namespace as it is; so the Class of a unit is a function of the
\* unit's content and of the namespace declared last, whatever the units
\* before imported, and a unit without a directive is named in the
\* namespace of the most recent unit that has one.
C19_ParseFileStart ==
    /\ [][(pc = "next_file" /\ cursor <= Len(raw_files)) =>
              /\ uses' = <<>>
              /\ aliases' = <<>>
              /\ brackets' = <<>>
              /\ tokens' = raw_files[cursor].content
              /\ namespace' = namespace]_vars
    /\ [](\A i, j \in DOMAIN files :
              (/\ ContentOf(files[i].path) = ContentOf(files[j].path)
               /\ DeclaredUpTo(InputOf(files[i].path)) = DeclaredUpTo(InputOf(files[j].path)))
                  => files[i].class = files[j].class)
    /\ []((pc = "ret" /\ ret # None) =>
              /\ namespace = DeclaredUpTo(cursor)
              /\ ret[1].name =
                     DeclaredUpTo(cursor) \o "\\" \o DeclaredClass(raw_files[cursor].content))

\* the second unit has no directive and follows a unit of namespace Lib that
\* imported Other\A and left a token and a bracket behind: its class is
\* Lib\B and its property type A is Lib\A
C19_Witness ==
    /\ pc = "ret"
    /\ cursor = 2
    /\ raw_files[1].content = UnitLib
    /\ raw_files[2].content = UnitB
    /\ ret # None
    /\ ret[1].name = "Lib\\B"
    /\ ret[1].dependencies = <<"Lib\\A">>
    /\ uses = <<>>
    /\ aliases = <<>>

\* the first unit has returned its class with imports, an alias, a token and
\* a bracket left in the Parser
C19_Leftovers ==
    /\ pc = "next_file"
    /\ cursor = 2
    /\ Len(raw_files) >= 2
    /\ uses # <<>>
    /\ aliases # <<>>
    /\ brackets # <<>>
    /\ tokens # <<>>

\* the text after the last namespace separator of a path
LastSegment(path) ==
    LET at == {i \in 1..Len(path) : SubSeq(path, i, i) = "\\"}
    IN IF at = {} THEN path
       ELSE SubSeq(path, (CHOOSE i \in at : \A j \in at : j <= i) + 1, Len(path))

\* the resolution of the identifier lexeme L as the rules state it
Resolved(L) ==
    LET matching == {i \in DOMAIN uses : LastSegment(uses[i]) = L}
    IN IF L \in DOMAIN BUILT_IN_DATA_TYPES THEN L
       ELSE IF SubSeq(L, 1, 1) = "\\" THEN L
       ELSE IF matching # {} THEN uses[CHOOSE i \in matching : \A j \in matching : i <= j]
       ELSE namespace \o "\\" \o L

\* the next token is an identifier handed to find_type by the step at pc
Resolving(sites) ==
    /\ pc \in sites
    /\ tokens # <<>>
    /\ Head(tokens).token_type = "Identifier"

\* C20: find_type gives a built-in name and a name that starts with the
\* separator unchanged, else the first import whose last segment is the
\* name, else the namespace, the separator and the name; so an import wins
\* over the namespace, and the steps that resolve a name change neither
\* uses, aliases nor namespace and take no token beyond the one resolved.
C20_FindType ==
    /\ [][Resolving({"cl_extends"}) =>
              class'.extends = Some(Resolved(Head(tokens).lexeme))]_vars
    /\ [][Resolving({"cl_use"}) =>
              class'.dependencies =
                  add_dependency(class, Resolved(Head(tokens).lexeme)).dependencies]_vars
    /\ [][Resolving({"fn_return", "fn_nullable"}) =>
              function'.return_type = Some(Resolved(Head(tokens).lexeme))]_vars
    /\ [][Resolving({"cl_extends", "cl_use", "fn_return", "fn_nullable"}) =>
              /\ uses' = uses
              /\ aliases' = aliases
              /\ namespace' = namespace
              /\ tokens' = Tail(tokens)]_vars
    /\ [](\A i \in DOMAIN tokens :
              tokens[i].token_type = "Identifier" =>
                  /\ find_type(tokens[i]) = Resolved(tokens[i].lexeme)
                  /\ (/\ match_data_type(tokens[i]) = None
                      /\ ~StartsWith(tokens[i].lexeme, "\\")
                      /\ \E k \in DOMAIN uses : LastSegment(uses[k]) = tokens[i].lexeme)
                         => \E k \in DOMAIN uses : find_type(tokens[i]) = uses[k])

\* in namespace App with the imports Lib\Bar and App\Bar, in this order,
\* `extends Bar` and the return type Bar are Lib\Bar
C20_Witness ==
    /\ pc = "ret"
    /\ ret # None
    /\ namespace = "App"
    /\ uses = <<"Lib\\Bar", "App\\Bar">>
    /\ ret[1].extends = Some("Lib\\Bar")
    /\ \E i \in DOMAIN ret[1].functions : ret[1].functions[i].return_type = Some("Lib\\Bar")

\* C21: every entry of the dependencies of a returned Class begins with an
\* uppercase character: add_dependency records only such names and no later
\* step of class parsing brings in another one.
C21_DependenciesUppercase ==
    (pc = "ret" /\ ret # None) =>
        \A i \in DOMAIN ret[1].dependencies : FirstIsUppercase(ret[1].dependencies[i])

\* the kind of Stmt that each control keyword stands for
KindOfWord ==
    ("if" :> "If") @@ ("elseif" :> "Elseif") @@ ("for" :> "For") @@
    ("foreach" :> "Foreach") @@ ("throw" :> "Throw") @@ ("catch" :> "Catch")

\* the control keywords of body that are not the member name directly after
\* `::` or `->`, in source order
ControlWords(body) ==
    LET Counts(i) ==
            /\ body[i].token_type = "Identifier"
            /\ body[i].lexeme \in DOMAIN KindOfWord
            /\ ~(i > 1 /\ body[i - 1].token_type \in {"ColonColon", "ThinArrow"})
        at == {i \in DOMAIN body : Counts(i)}
        Nth(n) == CHOOSE i \in at : Cardinality({j \in at : j < i}) = n - 1
    IN [n \in 1..Cardinality(at) |-> KindOfWord[body[Nth(n)].lexeme]]

\* C22: in a function body without switch and match, every `if`, `elseif`,
\* `for`, `foreach`, `throw` and `catch` token that is not the member name
\* directly after `::` or `->` gives exactly one Stmt of its kind, in source
\* order, and no other identifier gives one; the complexity of the function
\* is 1 + the number of these tokens.
C22_KeywordsGiveStmts ==
    (/\ pc = "ret"
     /\ ret # None
     /\ Content = FnUnit(BodyTokens)
     /\ ret[1].functions # <<>>)
        => /\ [i \in DOMAIN TheFunction.stmts |-> TheFunction.stmts[i].kind]
                  = ControlWords(BodyTokens)
           /\ Complexity(TheFunction) = 1 + Len(ControlWords(BodyTokens))

\* the current file is a function whose body is one switch or match with
\* nothing but bracket-free tokens between its braces
OneConstruct ==
    /\ Len(BodyTokens) >= 6
    /\ BodyTokens[1] \in {Id("switch"), Id("match")}
    /\ Content = FnUnit(Construct(BodyTokens[1].lexeme,
                                  SubSeq(BodyTokens, 6, Len(BodyTokens) - 1)))
    /\ \A i \in 6..(Len(BodyTokens) - 1) :
           BodyTokens[i].token_type \notin
               {"LeftBrace", "RightBrace", "LeftParen", "RightParen"}

\* the tokens of the current file that follow the body line
AfterBodyLine(token) == token.line > BodyLine

\* C23: switch_stmt and match_stmt consume the tokens up to and including
\* the `}` that closes the construct's own body and nothing after it,
\* whatever stands in the body, member accesses like `->match` included:
\* when the construct of the function body returns, the queue holds the
\* tokens after its closing brace, and a construct that is closed never ends
\* the run with a fault.
C23_ConstructEndsAtItsBrace ==
    /\ [][(OneConstruct /\ frames # <<>> /\ frames' = <<>> /\ pc' # "exit") =>
              tokens' = SelectSeq(Content, AfterBodyLine)]_vars
    /\ [](OneConstruct => pc # "exit")

\* the members the current file was built from, when it is a unit of
\* RecoveryUnits
MembersOf == Decode(BodyTokens, RecoveryMembers)

IsRecoveryUnit == Content = RecoveryUnit(MembersOf)

\* the values v of the entries <<v>> of a sequence of options, in order
RECURSIVE Present(_)
Present(options) ==
    IF options = <<>> THEN <<>>
    ELSE Head(options) \o Present(Tail(options))

\* seq without the later occurrences of its elements
RECURSIVE Distinct(_)
Distinct(seq) ==
    IF seq = <<>> THEN <<>>
    ELSE LET front == Distinct(Front(seq))
         IN IF \E i \in DOMAIN front : front[i] = Last(seq) THEN front
            ELSE Append(front, Last(seq))

Previous == Content[Len(Content) - Len(tokens)]

\* C25: in a parameter list `params` grows by exactly one on each token
\* that starts with `$`, and a step adds a dependency only on an Identifier
\* that names a type which is neither built-in nor a keyword and is not a
\* default value: commas, `=`, `)`, literals, constants like `null` and
\* punctuation never add one.
C25_ParamsAndTypes ==
    [][(pc = "fn_params" /\ tokens # <<>> /\ pc' # "exit") =>
          LET token == Head(tokens)
          IN /\ function'.params =
                    function.params + (IF StartsWith(token.lexeme, "$") THEN 1 ELSE 0)
             /\ class'.dependencies # class.dependencies =>
                    /\ token.token_type = "Identifier"
                    /\ token.lexeme \notin DOMAIN BUILT_IN_DATA_TYPES
                    /\ token.lexeme \notin DOMAIN KEYWORDS
                    /\ Previous.token_type # "Equal"]_vars

\* the positions of the top-level `use` tokens before the class declaration
ImportsAt ==
    LET classes == {i \in DOMAIN Content : Content[i].lexeme \in {"class", "trait"}}
    IN {p \in 1..(Len(Content) - 2) :
           /\ Content[p].token_type = "Identifier"
           /\ Content[p].lexeme = "use"
           /\ \A i \in classes : p < i}

\* the import at position p is written `use X as A`
IsAliased(p) == p + 3 <= Len(Content) /\ Content[p + 2].lexeme = "as"

\* the path recorded for the import at p: X, or X with A as its last segment
RecordedPath(p) ==
    LET X == Content[p + 1].lexeme
    IN IF IsAliased(p)
       THEN SubSeq(X, 1, Len(X) - Len(LastSegment(X))) \o Content[p + 3].lexeme
       ELSE X

\* C26: when the class is returned, the original name of every top-level
\* import before the class whose recorded path begins with an uppercase
\* character is in `dependencies`, whether the body names it or not.
C26_ImportsAreDependencies ==
    (pc = "ret" /\ ret # None) =>
        \A p \in ImportsAt :
            FirstIsUppercase(RecordedPath(p)) =>
                \E i \in DOMAIN ret[1].dependencies :
                    ret[1].dependencies[i] = Content[p + 1].lexeme

\* the text is a heredoc with an unquoted marker and a line break after it
StartsHereDoc ==
    /\ Len(source) >= 5
    /\ SubSeq(source, 1, 3) = "<<<"
    /\ SubSeq(source, 4, 4) \notin {"'", "\"", "\n"}
    /\ \E i \in 5..Len(source) : SubSeq(source, i, i) = "\n"

\* the position of the line break that ends the opening line
OpeningEnd == CHOOSE i \in 5..Len(source) :
                  /\ SubSeq(source, i, i) = "\n"
                  /\ \A j \in 5..(i - 1) : SubSeq(source, j, j) # "\n"

Marker == SubSeq(source, 4, OpeningEnd - 1)

\* the positions where a line begins that consists of the marker, possibly
\* followed by `;`
MarkerLines ==
    {k \in (OpeningEnd + 1)..Len(source) :
        /\ SubSeq(source, k - 1, k - 1) = "\n"
        /\ k + Len(Marker) - 1 <= Len(source)
        /\ SubSeq(source, k, k + Len(Marker) - 1) = Marker
        /\ \/ k + Len(Marker) > Len(source)
           \/ SubSeq(source, k + Len(Marker), k + Len(Marker)) \in {"\n", ";"}}

\* C27: a heredoc ends only at a line that consists of its marker: the
\* token holds the text up to the first such line, the marker's characters
\* elsewhere in the body do not end it, and lexing goes on right after the
\* marker of that line.
C27_HereDocEndsAtMarkerLine ==
    [][(pc = "scan" /\ code = source /\ StartsHereDoc /\ MarkerLines # {}) =>
          LET k == CHOOSE k \in MarkerLines : \A m \in MarkerLines : k <= m
          IN /\ pc' = "scan"
             /\ lexed' = <<[token_type |-> "HereDoc", line |-> lexed'[1].line,
                            lexeme |-> SubSeq(source, OpeningEnd + 1, k - 1)]>>
             /\ code' = SubSeq(source, k + Len(Marker), Len(source))]_vars

\* str holds sub somewhere
Holds(str, sub) ==
    \E i \in 1..(Len(str) - Len(sub) + 1) : SubSeq(str, i, i + Len(sub) - 1) = sub

\* a text with a `//` comment and without block comment, string or heredoc
LineCommentOnly ==
    /\ Holds(source, "//")
    /\ ~Holds(source, "/*")
    /\ ~Holds(source, "'")
    /\ ~Holds(source, "\"")
    /\ ~Holds(source, "<<<")

\* C28: a `//` comment gives no token and raises no fault: it ends at the
\* next line break or at the end of the input, and the token stream then
\* ends normally; among the comments only a block comment without `*/`
\* ends the run with a lexical fault.
C28_LineCommentNeverFaults ==
    /\ LineCommentOnly => pc # "exit"
    /\ (LineCommentOnly /\ SubSeq(source, 1, 2) = "//" /\ ~Holds(source, "\n")) =>
           lexed = <<>>

\* the tokens of the current file that parse_file has taken from the queue
Taken == SubSeq(Content, 1, Len(Content) - Len(tokens))

\* the number of `(` and `{` less the number of `)` and `}` among the first
\* k tokens taken
Nesting(k) ==
    Cardinality({i \in 1..k : Taken[i].token_type \in {"LeftParen", "LeftBrace"}})
    - Cardinality({i \in 1..k : Taken[i].token_type \in {"RightParen", "RightBrace"}})

\* the kinds of the `(` and `{` taken that have no closer yet, in order
Unmatched ==
    LET open == {i \in DOMAIN Taken :
                    /\ Taken[i].token_type \in {"LeftParen", "LeftBrace"}
                    /\ \A j \in i..Len(Taken) : Nesting(j) >= Nesting(i)}
        Nth(n) == CHOOSE i \in open : Cardinality({j \in open : j < i}) = n - 1
    IN [n \in 1..Cardinality(open) |-> Taken[Nth(n)].token_type]

\* parse_file is at work on the current file
Parsing == pc \notin {"next_file", "index", "done", "shown", "exit", "panic", "scan", "lexed"}

\* C29: while parse_file runs, the bracket stack is the sequence of the `(`
\* and `{` taken from the queue that are not closed yet: every token taken,
\* at whatever call site, goes through bracket tracking, `[` and `]` leave
\* the stack as it is, and the stack holds LeftParen and LeftBrace only.
C29_StackIsUnmatched ==
    /\ [](Parsing =>
              /\ tokens = SubSeq(Content, Len(Content) - Len(tokens) + 1, Len(Content))
              /\ brackets = Unmatched
              /\ \A i \in DOMAIN brackets : brackets[i] \in {"LeftParen", "LeftBrace"})
    /\ [][(Parsing /\ tokens # <<>> /\ tokens' = Tail(tokens)
             /\ Head(tokens).token_type \in {"LeftBracket", "RightBracket"}) =>
              brackets' = brackets]_vars

\* `{ { ( ) [` and more was taken in a function body and two `{` are open
C29_Witness ==
    /\ pc = "fn_stmt"
    /\ brackets = <<"LeftBrace", "LeftBrace">>
    /\ \E i \in DOMAIN Taken : Taken[i].token_type = "RightParen"
    /\ Taken[Len(Taken)].token_type = "LeftBracket"
    /\ tokens # <<>>

\* parse_file has returned or the run has ended in a fault
Ended == pc \in {"ret", "exit", "panic"}

\* C30: parse_file terminates on every finite token stream: every step of
\* every parsing loop and of the re-entry on `abstract` takes at least one
\* token from the queue or ends parse_file, also when the bracket depth is
\* below the depth a loop waits for, and so every run comes to a return or
\* to a fault.
C30_ParseFileTerminates ==
    /\ [][(Parsing /\ ~Ended) => (Len(tokens') < Len(tokens) \/ Ended')]_vars
    /\ (Parsing ~> Ended)

\* match_stmt waits for depth 3 inside a switch that is closed already: the
\* stack is lower and tokens are still taken
C30_Witness ==
    /\ pc = "mt_loop"
    /\ Len(frames) = 2
    /\ frames[2].depth = 3
    /\ Len(brackets) < 3
    /\ tokens # <<>>

====
